---- MODULE Spec2Model ----
(***************************************************************************)
(* Model of the three-stage support pipeline of labs/05-agent-orchestration *)
(* (solution): QueryAgent.analyze -> RouterAgent.route -> ActionAgent       *)
(* execute, orchestrated by AgentPipeline.process over the in-memory        *)
(* SessionManager.                                                          *)
(*                                                                          *)
(* Python strings that the code inspects (lower(), strip(), `in`) are       *)
(* sequences of one-character strings.  Python None of a string-typed value *)
(* is PyNone, a one-element sequence no real string equals.  Confidences    *)
(* are integers in hundredths (0.6 is 60).                                  *)
(***************************************************************************)
EXTENDS Integers, Sequences, FiniteSets, TLC

\* ------------------------------------------------------------------------
\* Bounds of the model
\* ------------------------------------------------------------------------
MaxWords == 2
MaxRuns == 2
MaxLiveRuns == 1
MaxTurns == 6
MaxChanges == 2

\* ------------------------------------------------------------------------
\* Python values
\* ------------------------------------------------------------------------
None == "None"
PyNone == << "<None>" >>

Truthy(s) == s # PyNone /\ s # << >>

Whitespace == {" ", "\t", "\n"}

UpperToLower ==
    [A |-> "a", B |-> "b", C |-> "c", D |-> "d", E |-> "e", F |-> "f",
     G |-> "g", H |-> "h", I |-> "i", J |-> "j", K |-> "k", L |-> "l",
     M |-> "m", N |-> "n", O |-> "o", P |-> "p", Q |-> "q", R |-> "r",
     S |-> "s", T |-> "t", U |-> "u", V |-> "v", W |-> "w", X |-> "x",
     Y |-> "y", Z |-> "z"]

\* Mutant of lower: the text is compared as typed, without case conversion
lower_identity(s) == s

\* str.lower(): every upper-case letter is replaced, everything else is kept
lower(s) ==
    [i \in 1..Len(s) |->
        IF s[i] \in DOMAIN UpperToLower THEN UpperToLower[s[i]] ELSE s[i]]

\* Python `t in s` on strings: t occurs in s as a contiguous substring
Contains(s, t) ==
    \E i \in 0..(Len(s) - Len(t)) : SubSeq(s, i + 1, i + Len(t)) = t

\* Mutant of StripIsEmpty: the text is tested without strip()
StripIsEmpty_no_strip(s) == s = << >>

\* `not s.strip()`: nothing is left once the whitespace is stripped
StripIsEmpty(s) == \A i \in 1..Len(s) : s[i] \in Whitespace

RECURSIVE Join(_, _)
\* sep.join(parts)
Join(parts, sep) ==
    IF parts = << >> THEN << >>
    ELSE IF Len(parts) = 1 THEN parts[1]
    ELSE parts[1] \o sep \o Join(Tail(parts), sep)

\* dict.get(key, default)
DictGet(d, key, default) == IF key \in DOMAIN d THEN d[key] ELSE default

\* Mutant of DictUpdate: the map is replaced by e instead of being updated
DictUpdate_replace(d, e) == e

\* dict.update(e): the keys of e are inserted or overwritten
DictUpdate(d, e) ==
    [k \in (DOMAIN d) \cup (DOMAIN e) |-> IF k \in DOMAIN e THEN e[k] ELSE d[k]]

EmptyDict == [k \in {} |-> PyNone]

\* ------------------------------------------------------------------------
\* query_agent.py: Intent, QueryResult
\* ------------------------------------------------------------------------
Intent ==
    {"knowledge_query", "password_reset", "ticket_status", "general_chat",
     "escalation", "course_info", "unknown"}

\* QueryResult.get_entities_dict(): entities are kept as the name -> value map
get_entities_dict(query) == query.entities

\* QueryResult.get_entity(name).value if present else None
get_entity_value(query, name) == DictGet(query.entities, name, PyNone)

\* ------------------------------------------------------------------------
\* router_agent.py
\* ------------------------------------------------------------------------
Priority == {"low", "medium", "high", "urgent"}

\* Mutant of ROUTING_TABLE: the escalation intent goes to the general agent
ROUTING_TABLE_escalation_to_general ==
    [knowledge_query |-> << "retrieve_agent", "general_agent" >>,
     password_reset  |-> << "retrieve_agent", "escalation_agent" >>,
     ticket_status   |-> << "ticket_agent", "general_agent" >>,
     general_chat    |-> << "general_agent", None >>,
     escalation      |-> << "general_agent", None >>,
     course_info     |-> << "retrieve_agent", "general_agent" >>,
     unknown         |-> << "clarification_agent", "general_agent" >>]

ROUTING_TABLE ==
    [knowledge_query |-> << "retrieve_agent", "general_agent" >>,
     password_reset  |-> << "retrieve_agent", "escalation_agent" >>,
     ticket_status   |-> << "ticket_agent", "general_agent" >>,
     general_chat    |-> << "general_agent", None >>,
     escalation      |-> << "escalation_agent", None >>,
     course_info     |-> << "retrieve_agent", "general_agent" >>,
     unknown         |-> << "clarification_agent", "general_agent" >>]

ESCALATION_TRIGGERS == <<
    <<"l", "a", "w", "y", "e", "r">>,
    <<"a", "t", "t", "o", "r", "n", "e", "y">>,
    <<"l", "e", "g", "a", "l">>,
    <<"s", "u", "e">>,
    <<"l", "a", "w", "s", "u", "i", "t">>,
    <<"s", "u", "i", "c", "i", "d", "e">>,
    <<"h", "a", "r", "m">>,
    <<"h", "u", "r", "t", " ", "m", "y", "s", "e", "l", "f">>,
    <<"k", "i", "l", "l">>,
    <<"d", "i", "e">>,
    <<"s", "u", "p", "e", "r", "v", "i", "s", "o", "r">>,
    <<"m", "a", "n", "a", "g", "e", "r">>,
    <<"c", "o", "m", "p", "l", "a", "i", "n", "t">>,
    <<"i", "n", "c", "o", "m", "p", "e", "t", "e", "n", "t">>,
    <<"e", "m", "e", "r", "g", "e", "n", "c", "y">>,
    <<"u", "r", "g", "e", "n", "t">>,
    <<"i", "m", "m", "e", "d", "i", "a", "t", "e", "l", "y">>,
    <<"r", "i", "g", "h", "t", " ", "n", "o", "w">>,
    <<"a", "s", "a", "p">>,
    <<"h", "u", "m", "a", "n">>,
    <<"r", "e", "a", "l", " ", "p", "e", "r", "s", "o", "n">>,
    <<"s", "p", "e", "a", "k", " ", "t", "o", " ", "s", "o", "m", "e", "o", "n", "e">>,
    <<"t", "a", "l", "k", " ", "t", "o", " ", "s", "o", "m", "e", "o", "n", "e">> >>

CONFIDENCE_THRESHOLD == 60

\* the local set safety_triggers of _check_escalation_triggers
safety_triggers ==
    { <<"s", "u", "i", "c", "i", "d", "e">>,
      <<"h", "a", "r", "m">>,
      <<"h", "u", "r", "t", " ", "m", "y", "s", "e", "l", "f">>,
      <<"k", "i", "l", "l">>,
      <<"d", "i", "e">> }

\* the local set of legal keywords of _check_escalation_triggers
legal_triggers ==
    { <<"l", "a", "w", "y", "e", "r">>,
      <<"a", "t", "t", "o", "r", "n", "e", "y">>,
      <<"l", "e", "g", "a", "l">>,
      <<"s", "u", "e">> }

SafetyReason ==
    <<"S", "a", "f", "e", "t", "y", " ", "c", "o", "n", "c", "e",
      "r", "n", " ", "d", "e", "t", "e", "c", "t", "e", "d", " ",
      "-", " ", "i", "m", "m", "e", "d", "i", "a", "t", "e", " ",
      "a", "t", "t", "e", "n", "t", "i", "o", "n", " ", "r", "e",
      "q", "u", "i", "r", "e", "d">>

LegalReason ==
    <<"L", "e", "g", "a", "l", " ", "c", "o", "n", "c", "e", "r",
      "n", " ", "d", "e", "t", "e", "c", "t", "e", "d", " ", "-",
      " ", "r", "e", "q", "u", "i", "r", "e", "s", " ", "h", "u",
      "m", "a", "n", " ", "r", "e", "v", "i", "e", "w">>

TriggerReasonPrefix ==
    <<"E", "s", "c", "a", "l", "a", "t", "i", "o", "n", " ",
      "t", "r", "i", "g", "g", "e", "r", " ",
      "d", "e", "t", "e", "c", "t", "e", "d", ":", " ">>

SeqToSet(s) == { s[i] : i \in 1..Len(s) }

\* the list of the triggers that occur in the lower-cased text, in list order
TriggeredKeywords(original_query, triggers) ==
    LET query_lower == lower(original_query)
    IN  SelectSeq(triggers, LAMBDA trigger : Contains(query_lower, trigger))

\* Mutant of EscalationPriority: the legal class is looked at before the
\* safety class
EscalationPriority_legal_first(triggered_keywords) ==
    IF SeqToSet(triggered_keywords) \cap legal_triggers # {} THEN "high"
    ELSE IF SeqToSet(triggered_keywords) \cap safety_triggers # {} THEN "urgent"
    ELSE "high"

\* the priority branch of the scan, as written: any(t in safety_triggers ...)
EscalationPriority(triggered_keywords) ==
    IF SeqToSet(triggered_keywords) \cap safety_triggers # {} THEN "urgent"
    ELSE "high"

EscalationReason(triggered_keywords) ==
    IF SeqToSet(triggered_keywords) \cap safety_triggers # {} THEN SafetyReason
    ELSE IF SeqToSet(triggered_keywords) \cap legal_triggers # {} THEN LegalReason
    ELSE TriggerReasonPrefix \o Join(triggered_keywords, <<",", " ">>)

\* Mutant of _check_escalation_triggers: a query the classifier flagged for
\* clarification is not scanned
_check_escalation_triggers_unless_flagged(query, triggers) ==
    LET triggered_keywords == TriggeredKeywords(query.original_query, triggers)
    IN  IF triggered_keywords # << >> /\ ~query.requires_clarification
        THEN << [target_agent        |-> "escalation_agent",
                 parameters          |->
                     [original_query     |-> query.original_query,
                      triggered_keywords |-> triggered_keywords,
                      entities           |-> get_entities_dict(query)],
                 fallback_agent      |-> None,
                 priority            |-> EscalationPriority(triggered_keywords),
                 reasoning           |-> "escalation_triggers",
                 requires_escalation |-> TRUE,
                 escalation_reason   |-> EscalationReason(triggered_keywords)] >>
        ELSE << >>

\* RouterAgent._check_escalation_triggers: << >> for None, << decision >> else
_check_escalation_triggers(query, triggers) ==
    LET triggered_keywords == TriggeredKeywords(query.original_query, triggers)
    IN  IF triggered_keywords # << >>
        THEN << [target_agent        |-> "escalation_agent",
                 parameters          |->
                     [original_query     |-> query.original_query,
                      triggered_keywords |-> triggered_keywords,
                      entities           |-> get_entities_dict(query)],
                 fallback_agent      |-> None,
                 priority            |-> EscalationPriority(triggered_keywords),
                 reasoning           |-> "escalation_triggers",
                 requires_escalation |-> TRUE,
                 escalation_reason   |-> EscalationReason(triggered_keywords)] >>
        ELSE << >>

\* RouterAgent._build_parameters
_build_parameters(query) ==
    LET params == [query      |-> query.original_query,
                   entities   |-> get_entities_dict(query),
                   intent     |-> query.intent,
                   confidence |-> query.confidence]
    IN  IF query.intent = "ticket_status"
        THEN [ticket_id |-> get_entity_value(query, "ticket_id")] @@ params
        ELSE IF query.intent = "knowledge_query"
        THEN [topic        |-> get_entity_value(query, "topic"),
              search_query |-> query.original_query] @@ params
        ELSE IF query.intent = "password_reset"
        THEN [user_name |-> get_entity_value(query, "user_name")] @@ params
        ELSE IF query.intent = "course_info"
        THEN [course_number |-> get_entity_value(query, "course_number"),
              search_query  |-> query.original_query] @@ params
        ELSE params

\* Mutant of _determine_priority: the escalation intent gets the priority of
\* its urgency hint like every other intent
_determine_priority_no_override(query) ==
    LET urgency == DictGet(query.metadata, "urgency", "low")
    IN  IF urgency \in {"high", "medium", "low"} THEN urgency ELSE "medium"

\* RouterAgent._determine_priority
_determine_priority(query) ==
    LET urgency == DictGet(query.metadata, "urgency", "low")
        priority == IF urgency \in {"high", "medium", "low"} THEN urgency
                    ELSE "medium"
    IN  IF query.intent = "escalation" THEN "high" ELSE priority

\* Mutant of route: the confidence of the classification is not looked at
route_skip_confidence(query, table, triggers) ==
    LET escalation_result == _check_escalation_triggers(query, triggers)
    IN  IF escalation_result # << >> THEN escalation_result[1]
        ELSE IF query.requires_clarification
        THEN [target_agent        |-> "clarification_agent",
              parameters          |->
                  [question       |-> query.clarification_question,
                   original_query |-> query.original_query,
                   intent_guess   |-> query.intent],
              fallback_agent      |-> "general_agent",
              priority            |-> "medium",
              reasoning           |-> "clarification_requested",
              requires_escalation |-> FALSE,
              escalation_reason   |-> PyNone]
        ELSE LET entry == DictGet(table, query.intent, << "general_agent", None >>)
             IN  [target_agent        |-> entry[1],
                  parameters          |-> _build_parameters(query),
                  fallback_agent      |-> entry[2],
                  priority            |-> _determine_priority(query),
                  reasoning           |-> "routing_table",
                  requires_escalation |-> FALSE,
                  escalation_reason   |-> PyNone]

\* RouterAgent.route
route(query, table, triggers) ==
    LET escalation_result == _check_escalation_triggers(query, triggers)
    IN  IF escalation_result # << >> THEN escalation_result[1]
        ELSE IF query.requires_clarification
        THEN [target_agent        |-> "clarification_agent",
              parameters          |->
                  [question       |-> query.clarification_question,
                   original_query |-> query.original_query,
                   intent_guess   |-> query.intent],
              fallback_agent      |-> "general_agent",
              priority            |-> "medium",
              reasoning           |-> "clarification_requested",
              requires_escalation |-> FALSE,
              escalation_reason   |-> PyNone]
        ELSE IF query.confidence < CONFIDENCE_THRESHOLD
        THEN [target_agent        |-> "clarification_agent",
              parameters          |->
                  [intent_guess   |-> query.intent,
                   confidence     |-> query.confidence,
                   original_query |-> query.original_query],
              fallback_agent      |-> "general_agent",
              priority            |-> "medium",
              reasoning           |-> "low_confidence",
              requires_escalation |-> FALSE,
              escalation_reason   |-> PyNone]
        ELSE LET entry == DictGet(table, query.intent, << "general_agent", None >>)
             IN  [target_agent        |-> entry[1],
                  parameters          |-> _build_parameters(query),
                  fallback_agent      |-> entry[2],
                  priority            |-> _determine_priority(query),
                  reasoning           |-> "routing_table",
                  requires_escalation |-> FALSE,
                  escalation_reason   |-> PyNone]

\* ------------------------------------------------------------------------
\* action_agent.py: ActionResult and the five capabilities
\* ------------------------------------------------------------------------
\* The texts the language model or the knowledge base returns are opaque:
\* a text is a one-element sequence holding a token.
LlmTexts == { << "<completion>" >> }

\* chat.completions.create either returns a text or raises
LlmBehaviours == { [kind |-> "ok", text |-> t] : t \in LlmTexts } \cup { [kind |-> "raises"] }

\* retrieve_agent.query returns an answer with n sources or raises;
\* "unavailable" is _get_retrieve_agent returning None (the import of the
\* RetrieveAgent module fails), "construct_raises" is the constructor
\* RetrieveAgent() raising in _get_retrieve_agent (a setting of the search
\* service is missing from the environment), which only catches ImportError
RetrievalBehaviours ==
    { [kind |-> "ok", answer |-> << "<rag answer>" >>, sources |-> n] : n \in 0..1 }
        \cup { [kind |-> "raises"], [kind |-> "unavailable"],
               [kind |-> "construct_raises"] }

\* what the collaborators do during one execute call, and the uuid it draws
Envs == [retrieval : RetrievalBehaviours, llm : LlmBehaviours]

\* ActionResult with the dataclass defaults written out
ActionResult(content, sources, confidence, requires_followup, suggested_actions, metadata) ==
    [content           |-> content,
     sources           |-> sources,
     confidence        |-> confidence,
     requires_followup |-> requires_followup,
     suggested_actions |-> suggested_actions,
     metadata          |-> metadata]

NoMetadata == [k \in {} |-> None]

\* An execute call returns << result >> or raises, which is << >>.

\* RetrieveActionAgent._generate_fallback_response
_generate_fallback_response(query, conversation_history, env) ==
    IF env.llm.kind = "ok"
    THEN << ActionResult(env.llm.text, << >>, 40, TRUE,
                         << "Try again", "Speak to human support" >>,
                         [fallback_mode |-> TRUE]) >>
    ELSE << >>

\* Mutant of RetrieveActionAgent_execute: an answer without sources is
\* reported like an answer with sources
RetrieveActionAgent_execute_as_grounded(decision, conversation_history, env) ==
    LET search_query == DictGet(decision.parameters, "search_query",
                                DictGet(decision.parameters, "query", << >>))
        n == env.retrieval.sources
    IN  IF env.retrieval.kind = "ok"
        THEN << ActionResult(env.retrieval.answer,
                             [i \in 1..n |-> [id |-> i]],
                             85,
                             FALSE,
                             << "Ask a follow-up question", "Need more help?" >>,
                             [search_results_count |-> n]) >>
        ELSE IF env.retrieval.kind = "construct_raises" THEN << >>
        ELSE _generate_fallback_response(search_query, conversation_history, env)

\* RetrieveActionAgent.execute
RetrieveActionAgent_execute(decision, conversation_history, env) ==
    LET search_query == DictGet(decision.parameters, "search_query",
                                DictGet(decision.parameters, "query", << >>))
        n == env.retrieval.sources
    IN  IF env.retrieval.kind = "ok"
        THEN << ActionResult(env.retrieval.answer,
                             [i \in 1..n |-> [id |-> i]],
                             IF n > 0 THEN 85 ELSE 50,
                             n = 0,
                             << "Ask a follow-up question", "Need more help?" >>,
                             [search_results_count |-> n]) >>
        ELSE IF env.retrieval.kind = "construct_raises" THEN << >>
        ELSE _generate_fallback_response(search_query, conversation_history, env)

\* GeneralChatAgent.execute
GeneralChatAgent_execute(decision, conversation_history, env) ==
    IF env.llm.kind = "ok"
    THEN << ActionResult(env.llm.text, << >>, 80, FALSE,
                         << "Ask a question", "Check ticket status",
                            "Get help with password" >>,
                         NoMetadata) >>
    ELSE << >>

\* Mutant of ClarificationAgent_execute: the question is always generated
ClarificationAgent_execute_always_generates(decision, conversation_history, env) ==
    IF env.llm.kind = "ok"
    THEN << ActionResult(env.llm.text, << >>, 50, TRUE,
                         << "Ask about policies", "Check ticket status",
                            "Reset password", "Talk to human" >>,
                         NoMetadata) >>
    ELSE << >>

\* ClarificationAgent.execute
ClarificationAgent_execute(decision, conversation_history, env) ==
    LET params == decision.parameters
    IN  IF "question" \in DOMAIN params /\ Truthy(params["question"])
        THEN << ActionResult(params["question"], << >>, 60, TRUE, << >>, NoMetadata) >>
        ELSE IF env.llm.kind = "ok"
        THEN << ActionResult(env.llm.text, << >>, 50, TRUE,
                             << "Ask about policies", "Check ticket status",
                                "Reset password", "Talk to human" >>,
                             NoMetadata) >>
        ELSE << >>

HexDigits == << "1", "2", "3", "4", "5", "6", "7", "8", "9", "A", "B", "C", "D", "E", "F" >>

\* uuid.uuid4().hex[:8].upper() of the n-th identifier drawn
Hex8(n) == << "0", "0", "0", "0", "0", "0", "0", HexDigits[n] >>

EscPrefix == << "E", "S", "C", "-" >>

\* the keyword lists of the template selection in EscalationAgent.execute
template_safety_keywords ==
    { <<"s", "u", "i", "c", "i", "d", "e">>, <<"h", "a", "r", "m">>,
      <<"h", "u", "r", "t">>, <<"k", "i", "l", "l">>, <<"d", "i", "e">> }

template_legal_keywords ==
    { <<"l", "a", "w", "y", "e", "r">>, <<"a", "t", "t", "o", "r", "n", "e", "y">>,
      <<"l", "e", "g", "a", "l">>, <<"s", "u", "e">> }

\* ESCALATION_TEMPLATES: only the legal and the default template have the
\* {ref_number} placeholder
ESCALATION_TEMPLATES(kind, ref_number) ==
    IF kind = "safety" THEN << "<safety template>" >>
    ELSE IF kind = "legal"
    THEN << "<legal template> Your reference number is: " >> \o ref_number
    ELSE << "<default template> Your reference number is: " >> \o ref_number

\* Mutant of EscalationAgent_execute: the confidence is at the maximum only
\* for a decision that has an escalation reason
EscalationAgent_execute_unsure_without_reason(decision, conversation_history, n) ==
    LET ref_number == EscPrefix \o Hex8(n)
        triggered_keywords == DictGet(decision.parameters, "triggered_keywords", << >>)
        escalation_reason ==
            IF decision.escalation_reason = PyNone THEN << >>
            ELSE decision.escalation_reason
        kind ==
            IF \/ Contains(lower(escalation_reason), <<"s", "a", "f", "e", "t", "y">>)
               \/ SeqToSet(triggered_keywords) \cap template_safety_keywords # {}
            THEN "safety"
            ELSE IF \/ Contains(lower(escalation_reason), <<"l", "e", "g", "a", "l">>)
                    \/ SeqToSet(triggered_keywords) \cap template_legal_keywords # {}
            THEN "legal"
            ELSE "default"
    IN  << ActionResult(ESCALATION_TEMPLATES(kind, ref_number), << >>,
                        IF escalation_reason = << >> THEN 80 ELSE 100, TRUE,
                        << "Provide more details", "Confirm contact info" >>,
                        [reference_number   |-> ref_number,
                         escalation_reason  |-> escalation_reason,
                         priority           |-> kind,
                         triggered_keywords |-> triggered_keywords]) >>

\* EscalationAgent.execute; n is the number of the uuid it draws
EscalationAgent_execute(decision, conversation_history, n) ==
    LET ref_number == EscPrefix \o Hex8(n)
        triggered_keywords == DictGet(decision.parameters, "triggered_keywords", << >>)
        escalation_reason ==
            IF decision.escalation_reason = PyNone THEN << >>
            ELSE decision.escalation_reason
        kind ==
            IF \/ Contains(lower(escalation_reason), <<"s", "a", "f", "e", "t", "y">>)
               \/ SeqToSet(triggered_keywords) \cap template_safety_keywords # {}
            THEN "safety"
            ELSE IF \/ Contains(lower(escalation_reason), <<"l", "e", "g", "a", "l">>)
                    \/ SeqToSet(triggered_keywords) \cap template_legal_keywords # {}
            THEN "legal"
            ELSE "default"
    IN  << ActionResult(ESCALATION_TEMPLATES(kind, ref_number), << >>, 100, TRUE,
                        << "Provide more details", "Confirm contact info" >>,
                        [reference_number   |-> ref_number,
                         escalation_reason  |-> escalation_reason,
                         priority           |-> kind,
                         triggered_keywords |-> triggered_keywords]) >>

\* the keys of mock_statuses in TicketStatusAgent.execute
mock_statuses ==
    { <<"T", "K", "T", "-", "1", "2", "3", "4", "5">>,
      <<"T", "K", "T", "-", "6", "7", "8", "9", "0">> }

TktPrefix == << "T", "K", "T", "-" >>

LowerToUpper ==
    [c \in { UpperToLower[u] : u \in DOMAIN UpperToLower } |->
        CHOOSE u \in DOMAIN UpperToLower : UpperToLower[u] = c]

\* str.upper()
upper(s) ==
    [i \in 1..Len(s) |->
        IF s[i] \in DOMAIN LowerToUpper THEN LowerToUpper[s[i]] ELSE s[i]]

StartsWith(s, prefix) ==
    Len(s) >= Len(prefix) /\ SubSeq(s, 1, Len(prefix)) = prefix

\* Mutant of TicketStatusAgent_execute: the ticket is looked up by the
\* identifier as given
TicketStatusAgent_execute_as_given(decision, conversation_history) ==
    LET ticket_id == DictGet(decision.parameters, "ticket_id", PyNone)
    IN  IF ~Truthy(ticket_id)
        THEN << ActionResult(<< "<ask for ticket number>" >>, << >>, 80, TRUE,
                             << >>, NoMetadata) >>
        ELSE IF ticket_id \in mock_statuses
        THEN << ActionResult(<< "<status of> " >> \o ticket_id, << >>, 95, FALSE,
                             << "Add a comment", "Escalate ticket",
                                "Check another ticket" >>,
                             [ticket_id |-> ticket_id]) >>
        ELSE << ActionResult(<< "<not found> " >> \o ticket_id, << >>, 70, TRUE,
                             << "Try another ticket number", "Create new ticket",
                                "Talk to support" >>,
                             NoMetadata) >>

\* TicketStatusAgent.execute
TicketStatusAgent_execute(decision, conversation_history) ==
    LET ticket_id == DictGet(decision.parameters, "ticket_id", PyNone)
        ticket_id_upper ==
            IF StartsWith(upper(ticket_id), TktPrefix) THEN upper(ticket_id)
            ELSE TktPrefix \o upper(ticket_id)
    IN  IF ~Truthy(ticket_id)
        THEN << ActionResult(<< "<ask for ticket number>" >>, << >>, 80, TRUE,
                             << >>, NoMetadata) >>
        ELSE IF ticket_id_upper \in mock_statuses
        THEN << ActionResult(<< "<status of> " >> \o ticket_id_upper, << >>, 95, FALSE,
                             << "Add a comment", "Escalate ticket",
                                "Check another ticket" >>,
                             [ticket_id |-> ticket_id_upper]) >>
        ELSE << ActionResult(<< "<not found> " >> \o ticket_id, << >>, 70, TRUE,
                             << "Try another ticket number", "Create new ticket",
                                "Talk to support" >>,
                             NoMetadata) >>

\* create_action_agents: the registry of the pipeline, name -> class
action_agents ==
    [retrieve_agent      |-> "RetrieveActionAgent",
     general_agent       |-> "GeneralChatAgent",
     clarification_agent |-> "ClarificationAgent",
     escalation_agent    |-> "EscalationAgent",
     ticket_agent        |-> "TicketStatusAgent",
     password_agent      |-> "RetrieveActionAgent"]

\* agent.execute(decision, conversation_history) of the registered agent `name`
execute(name, decision, conversation_history, env, n) ==
    LET class == action_agents[name]
    IN  IF class = "RetrieveActionAgent"
        THEN RetrieveActionAgent_execute(decision, conversation_history, env)
        ELSE IF class = "GeneralChatAgent"
        THEN GeneralChatAgent_execute(decision, conversation_history, env)
        ELSE IF class = "ClarificationAgent"
        THEN ClarificationAgent_execute(decision, conversation_history, env)
        ELSE IF class = "EscalationAgent"
        THEN EscalationAgent_execute(decision, conversation_history, n)
        ELSE TicketStatusAgent_execute(decision, conversation_history)

\* whether the call drew a uuid (only EscalationAgent.execute does)
DrawsUuid(name) == action_agents[name] = "EscalationAgent"

\* the text the agent `name` takes from the decision as the query it
\* answers: search_query (else query) for RetrieveActionAgent, query for
\* GeneralChatAgent, original_query for a ClarificationAgent that generates
\* its question; None for an agent that reads no query
agent_query(name, decision) ==
    LET class == action_agents[name]
        params == decision.parameters
    IN  IF class = "RetrieveActionAgent"
        THEN DictGet(params, "search_query", DictGet(params, "query", << >>))
        ELSE IF class = "GeneralChatAgent" THEN DictGet(params, "query", << >>)
        ELSE IF class = "ClarificationAgent"
        THEN (IF "question" \in DOMAIN params /\ Truthy(params["question"])
              THEN PyNone ELSE DictGet(params, "original_query", << >>))
        ELSE PyNone

\* agent.execute with what the call does besides returning: the query it
\* answers, the calls it makes to retrieve_agent.query, to
\* chat.completions.create and to uuid.uuid4, and the lookups in the
\* ticket table
execute_call(name, decision, conversation_history, env, n) ==
    LET class == action_agents[name]
        params == decision.parameters
    IN  [result |-> execute(name, decision, conversation_history, env, n),
         query |-> agent_query(name, decision),
         retrieval_calls |->
             IF class = "RetrieveActionAgent" /\ env.retrieval.kind \in {"ok", "raises"}
             THEN 1 ELSE 0,
         llm_calls |->
             IF class = "RetrieveActionAgent"
             THEN (IF env.retrieval.kind \in {"raises", "unavailable"} THEN 1 ELSE 0)
             ELSE IF class = "GeneralChatAgent" THEN 1
             ELSE IF class = "ClarificationAgent"
             THEN (IF "question" \in DOMAIN params /\ Truthy(params["question"])
                   THEN 0 ELSE 1)
             ELSE 0,
         ticket_lookups |->
             IF class = "TicketStatusAgent"
                   /\ Truthy(DictGet(params, "ticket_id", PyNone))
             THEN 1 ELSE 0,
         uuids |-> IF DrawsUuid(name) THEN 1 ELSE 0]

\* ------------------------------------------------------------------------
\* query_agent.py: QueryAgent.analyze
\* ------------------------------------------------------------------------
\* The classification the completion service returns is a JSON object: a
\* dict in which any key may be missing.  A JSON number is << n >> and a
\* JSON null number is << >>.
LlmResponses ==
    { [intent |-> "general_chat", confidence |-> << 90 >>, entities |-> EmptyDict,
       requires_clarification |-> FALSE, clarification_question |-> PyNone,
       urgency |-> "low"],
      [intent |-> "knowledge_query", confidence |-> << 90 >>,
       entities |-> [topic |-> <<"w", "i", "f", "i">>],
       requires_clarification |-> FALSE, urgency |-> "high"],
      [intent |-> "password_reset", confidence |-> << 80 >>,
       entities |-> [topic |-> <<"v", "p", "n">>, user_name |-> PyNone],
       requires_clarification |-> FALSE, urgency |-> "medium"],
      [intent |-> "no_such_intent", entities |-> EmptyDict],
      [intent |-> "general_chat", confidence |-> << >>, entities |-> EmptyDict] }

\* what the completion call of analyze does: it raises, returns text that is
\* not JSON, or returns a JSON object
ClassifierBehaviours ==
    { [kind |-> "raises"], [kind |-> "invalid_json"] }
        \cup { [kind |-> "ok", response |-> r] : r \in LlmResponses }

\* QueryAgent._parse_entities: null values are skipped; the entities are kept
\* as the name -> value map that get_entities_dict and get_entity read
_parse_entities(entities_dict) ==
    [name \in { k \in DOMAIN entities_dict : entities_dict[k] # PyNone } |->
        entities_dict[name]]

\* QueryAgent._parse_response: << QueryResult >>, or << >> when float() raises
_parse_response(original_query, llm_response) ==
    LET intent_str == DictGet(llm_response, "intent", "unknown")
        intent == IF intent_str \in Intent THEN intent_str ELSE "unknown"
        entities == _parse_entities(DictGet(llm_response, "entities", EmptyDict))
        confidence == DictGet(llm_response, "confidence", << 50 >>)
    IN  IF confidence = << >> THEN << >>
        ELSE << [original_query         |-> original_query,
                 intent                 |-> intent,
                 entities               |-> entities,
                 confidence             |-> confidence[1],
                 requires_clarification |->
                     DictGet(llm_response, "requires_clarification", FALSE),
                 clarification_question |->
                     DictGet(llm_response, "clarification_question", PyNone),
                 metadata               |->
                     [urgency |-> DictGet(llm_response, "urgency", "low")]] >>

\* QueryAgent.analyze: << QueryResult >>, or << >> when it raises
analyze(query, conversation_context, behaviour) ==
    IF query = << >> \/ StripIsEmpty(query) THEN << >>
    ELSE IF behaviour.kind # "ok" THEN << >>
    ELSE _parse_response(query, behaviour.response)

\* Mutant of analyze_call: the completion call is made before the query
\* is validated
analyze_call_validate_late(query, conversation_context, behaviour) ==
    IF behaviour.kind = "raises"
    THEN [error |-> "APIError", llm_calls |-> 1, result |-> << >>]
    ELSE IF query = << >> \/ StripIsEmpty(query)
    THEN [error |-> "ValueError", llm_calls |-> 1, result |-> << >>]
    ELSE IF behaviour.kind = "invalid_json"
    THEN [error |-> "JSONDecodeError", llm_calls |-> 1, result |-> << >>]
    ELSE LET r == _parse_response(query, behaviour.response)
         IN  IF r = << >>
             THEN [error |-> "TypeError", llm_calls |-> 1, result |-> << >>]
             ELSE [error |-> None, llm_calls |-> 1, result |-> r]

\* QueryAgent.analyze with what the call does besides returning: the
\* exception it raises (None when it returns) and the number of
\* chat.completions.create calls it made
analyze_call(query, conversation_context, behaviour) ==
    IF query = << >> \/ StripIsEmpty(query)
    THEN [error |-> "ValueError", llm_calls |-> 0, result |-> << >>]
    ELSE IF behaviour.kind = "raises"
    THEN [error |-> "APIError", llm_calls |-> 1, result |-> << >>]
    ELSE IF behaviour.kind = "invalid_json"
    THEN [error |-> "JSONDecodeError", llm_calls |-> 1, result |-> << >>]
    ELSE LET r == _parse_response(query, behaviour.response)
         IN  IF r = << >>
             THEN [error |-> "TypeError", llm_calls |-> 1, result |-> << >>]
             ELSE [error |-> None, llm_calls |-> 1, result |-> r]

\* ------------------------------------------------------------------------
\* pipeline.py: Session, SessionManager
\* ------------------------------------------------------------------------
\* str(uuid.uuid4()) of the n-th identifier drawn
Uuid(n) == "u" \o ToString(n)

\* `if session_id` on Optional[str]
SidTruthy(session_id) == session_id # None /\ session_id # ""

\* Session(session_id=...) as constructed at time t
NewSession(session_id, t) ==
    [session_id    |-> session_id,
     created_at    |-> t,
     turns         |-> << >>,
     context       |-> [k \in {} |-> EmptyDict],
     last_activity |-> t]

\* Mutant of add_turn: user_message and agent_response change places
add_turn_swapped(session, user_message, agent_response, intent, entities, routing, confidence, turn_id, t) ==
    LET turn == [turn_id        |-> turn_id,
                 timestamp      |-> t,
                 user_message   |-> agent_response,
                 agent_response |-> user_message,
                 intent         |-> intent,
                 entities       |-> entities,
                 routing        |-> routing,
                 confidence     |-> confidence]
    IN  [session EXCEPT
            !.turns = Append(@, turn),
            !.last_activity = t,
            !.context = [all_entities |->
                            DictUpdate(DictGet(@, "all_entities", EmptyDict), entities)]]

\* Mutant of add_turn: the turn is put in front of the turns of the session
add_turn_prepend(session, user_message, agent_response, intent, entities, routing, confidence, turn_id, t) ==
    LET turn == [turn_id        |-> turn_id,
                 timestamp      |-> t,
                 user_message   |-> user_message,
                 agent_response |-> agent_response,
                 intent         |-> intent,
                 entities       |-> entities,
                 routing        |-> routing,
                 confidence     |-> confidence]
    IN  [session EXCEPT
            !.turns = << turn >> \o @,
            !.last_activity = t,
            !.context = [all_entities |->
                            DictUpdate(DictGet(@, "all_entities", EmptyDict), entities)]]

\* Mutant of add_turn: the new turn takes the place of the last one
add_turn_overwrite(session, user_message, agent_response, intent, entities, routing, confidence, turn_id, t) ==
    LET turn == [turn_id        |-> turn_id,
                 timestamp      |-> t,
                 user_message   |-> user_message,
                 agent_response |-> agent_response,
                 intent         |-> intent,
                 entities       |-> entities,
                 routing        |-> routing,
                 confidence     |-> confidence]
    IN  [session EXCEPT
            !.turns = IF @ = << >> THEN << turn >>
                      ELSE [@ EXCEPT ![Len(@)] = turn],
            !.last_activity = t,
            !.context = [all_entities |->
                            DictUpdate(DictGet(@, "all_entities", EmptyDict), entities)]]

\* Session.add_turn
add_turn(session, user_message, agent_response, intent, entities, routing, confidence, turn_id, t) ==
    LET turn == [turn_id        |-> turn_id,
                 timestamp      |-> t,
                 user_message   |-> user_message,
                 agent_response |-> agent_response,
                 intent         |-> intent,
                 entities       |-> entities,
                 routing        |-> routing,
                 confidence     |-> confidence]
    IN  [session EXCEPT
            !.turns = Append(@, turn),
            !.last_activity = t,
            !.context = [all_entities |->
                            DictUpdate(DictGet(@, "all_entities", EmptyDict), entities)]]

\* Mutant of LastTurns: the oldest k turns are taken
LastTurns_oldest(turns, k) ==
    IF Len(turns) > k THEN SubSeq(turns, 1, k) ELSE turns

\* self.turns[-k:]
LastTurns(turns, k) ==
    IF Len(turns) > k THEN SubSeq(turns, Len(turns) - k + 1, Len(turns)) ELSE turns

RECURSIVE ChatFormat(_)
ChatFormat(turns) ==
    IF turns = << >> THEN << >>
    ELSE << [role |-> "user", content |-> turns[1].user_message],
            [role |-> "assistant", content |-> turns[1].agent_response] >>
         \o ChatFormat(Tail(turns))

\* Session.get_history
get_history(session, max_turns) == ChatFormat(LastTurns(session.turns, max_turns))

\* Mutant of get_context_summary: the turns of the session are not read
get_context_summary_no_turns(session) ==
    << [part |-> "start of a new conversation"] >>

\* Session.get_context_summary: the parts of the summary, before "\n".join
get_context_summary(session) ==
    IF session.turns = << >> THEN << [part |-> "start of a new conversation"] >>
    ELSE LET recent == LastTurns(session.turns, 3)
             all_entities == DictGet(session.context, "all_entities", EmptyDict)
         IN  << [part |-> "Recent topics",
                 topics |-> { recent[i].intent : i \in 1..Len(recent) }] >>
             \o (IF DOMAIN all_entities # {}
                 THEN << [part |-> "Known information", known |-> all_entities] >>
                 ELSE << >>)
             \o << [part |-> "Conversation length", turns |-> Len(session.turns)] >>

\* ------------------------------------------------------------------------
\* State
\* ------------------------------------------------------------------------
\* A run record holds the arguments and local variables of one process call
\* and history fields that record what the run did: attempts (the execute
\* calls made, in order, with their outcome), stages (the positions the run
\* went through), before (the heap as get_or_create left it), started (the
\* clock when the call was made) and recorded (the number of the uuid drawn
\* for its turn, which orders the add_turn calls).
VARIABLES
    _sessions,    \* SessionManager._sessions: session id -> Session object
    heap,         \* the Session objects ever constructed, by reference
    run,          \* per process call: position and local variables
    now,          \* datetime.utcnow(), a logical clock
    uuid_count,   \* number of uuid4 identifiers drawn so far
    rq,           \* a component exercised alone: the QueryResult handed to route
    rd,           \* a component exercised alone: << >> or << what route returned >>
    aq,           \* a component exercised alone: its input, collaborators or class state
    ar            \* a component exercised alone: << >> or what its calls did

vars == << _sessions, heap, run, now, uuid_count, rq, rd, aq, ar >>

Calls == {"c1", "c2"}

IdleRun ==
    [pc                   |-> "idle",
     user_message         |-> << >>,
     session_id           |-> None,
     session              |-> 0,
     context_summary      |-> << >>,
     structured_query     |-> << >>,
     routing_decision     |-> << >>,
     conversation_history |-> << >>,
     agent                |-> None,
     response             |-> << >>,
     result               |-> << >>,
     raised               |-> FALSE,
     attempts             |-> << >>,
     stages               |-> << >>,
     before               |-> << >>,
     started              |-> 0,
     recorded             |-> 0]

\* the messages a caller sends
Messages ==
    { << >>,
      << " ", "\t" >>,
      <<"H", "e", "l", "l", "o", "!">>,
      <<"I", " ", "w", "a", "n", "t", " ", "t", "o", " ", "D", "I", "E">> }

\* ------------------------------------------------------------------------
\* pipeline.py: AgentPipeline.process
\* ------------------------------------------------------------------------
RetryPrompt ==
    ActionResult(<< "I didn't receive a message. Could you please try again?" >>,
                 << >>, 0, TRUE, << >>, NoMetadata)

\* the error_response of the except branch of process
error_response(e) ==
    ActionResult(<< "I apologize, but I encountered an issue processing your request." >>,
                 << >>, 0, TRUE, << "Try again", "Speak to human" >>,
                 [error |-> e])

\* r.pc with the stage it enters appended to the stages the run went through
Goto(r, pc) == [r EXCEPT !.pc = pc, !.stages = Append(@, pc)]

\* Mutant of process_except: the exception is not caught and leaves process
process_except_reraise(r, session, e) ==
    [Goto(r, "done") EXCEPT !.raised = TRUE]

\* the except branch of process: the run returns the apology with the id of
\* its session
process_except(r, session, e) ==
    [Goto(r, "done") EXCEPT
        !.result = << [response |-> error_response(e),
                       session_id |-> session.session_id] >>]

\* the caller invokes process(user_message, session_id)
Call(c, user_message, session_id) ==
    /\ run[c].pc = "idle"
    /\ now < MaxRuns
    /\ now' = now + 1
    /\ run' = [run EXCEPT ![c] =
                 [Goto(IdleRun, "validating") EXCEPT
                     !.user_message = user_message, !.session_id = session_id,
                     !.started = now + 1]]
    /\ UNCHANGED << _sessions, heap, uuid_count, rq, rd, aq, ar >>

\* Mutant of get_or_create: a session is constructed and stored even when
\* the id names a stored session
get_or_create_always_new(session_id) ==
    LET id == IF SidTruthy(session_id) THEN session_id ELSE Uuid(uuid_count + 1)
        ref == Len(heap) + 1
    IN  [session |-> ref,
         heap |-> Append(heap, NewSession(id, now)),
         store |-> (id :> ref) @@ _sessions,
         drawn |-> IF SidTruthy(session_id) THEN 0 ELSE 1]

\* SessionManager.get_or_create, on the store and the heap:
\* the reference of the session, the new heap, the new store, uuids drawn
get_or_create(session_id) ==
    IF SidTruthy(session_id) /\ session_id \in DOMAIN _sessions
    THEN [session |-> _sessions[session_id],
          heap |-> [heap EXCEPT ![_sessions[session_id]].last_activity = now],
          store |-> _sessions,
          drawn |-> 0]
    ELSE LET id == IF SidTruthy(session_id) THEN session_id ELSE Uuid(uuid_count + 1)
             ref == Len(heap) + 1
         IN  [session |-> ref,
              heap |-> Append(heap, NewSession(id, now)),
              store |-> (id :> ref) @@ _sessions,
              drawn |-> IF SidTruthy(session_id) THEN 0 ELSE 1]

\* Mutant of Validate: the session is obtained before the message is
\* validated
Validate_session_first(c) ==
    LET r == run[c]
        g == get_or_create(r.session_id)
    IN  /\ r.pc = "validating"
        /\ IF r.user_message = << >> \/ StripIsEmpty(r.user_message)
           THEN run' = [run EXCEPT ![c] =
                           [Goto(r, "done") EXCEPT
                              !.result = << [response |-> RetryPrompt,
                                             session_id |->
                                                g.heap[g.session].session_id] >>]]
           ELSE run' = [run EXCEPT ![c] =
                           [Goto(r, "understanding") EXCEPT
                              !.session = g.session, !.before = g.heap]]
        /\ heap' = g.heap
        /\ _sessions' = g.store
        /\ uuid_count' = uuid_count + g.drawn
        /\ UNCHANGED << now, rq, rd, aq, ar >>

\* process, from the input validation to the call of analyze
Validate(c) ==
    LET r == run[c]
    IN  /\ r.pc = "validating"
        /\ IF r.user_message = << >> \/ StripIsEmpty(r.user_message)
           THEN /\ run' = [run EXCEPT ![c] =
                            [Goto(r, "done") EXCEPT
                               !.result = << [response |-> RetryPrompt,
                                              session_id |->
                                                 IF SidTruthy(r.session_id)
                                                 THEN r.session_id
                                                 ELSE Uuid(uuid_count + 1)] >>]]
                /\ uuid_count' = IF SidTruthy(r.session_id) THEN uuid_count
                                 ELSE uuid_count + 1
                /\ UNCHANGED << _sessions, heap >>
           ELSE LET g == get_or_create(r.session_id)
                IN  /\ run' = [run EXCEPT ![c] =
                                 [Goto(r, "understanding") EXCEPT
                                    !.session = g.session, !.before = g.heap]]
                    /\ heap' = g.heap
                    /\ _sessions' = g.store
                    /\ uuid_count' = uuid_count + g.drawn
        /\ UNCHANGED << now, rq, rd, aq, ar >>

\* Stage 1: get_context_summary and QueryAgent.analyze
Understand(c) ==
    LET r == run[c]
        context_summary == get_context_summary(heap[r.session])
    IN  /\ r.pc = "understanding"
        /\ \E behaviour \in ClassifierBehaviours :
              LET q == analyze(r.user_message, context_summary, behaviour)
              IN  run' = [run EXCEPT ![c] =
                     IF q # << >>
                     THEN [Goto(r, "routing") EXCEPT
                              !.context_summary = context_summary,
                              !.structured_query = q[1]]
                     ELSE process_except([r EXCEPT !.context_summary = context_summary],
                                         heap[r.session], "analyze failed")]
        /\ UNCHANGED << _sessions, heap, now, uuid_count, rq, rd, aq, ar >>

\* the agent _execute_action looks up first: the target, or general_agent
\* when the target is not registered; None when there is neither
PrimaryAgent(decision) ==
    IF decision.target_agent \in DOMAIN action_agents THEN decision.target_agent
    ELSE IF "general_agent" \in DOMAIN action_agents THEN "general_agent"
    ELSE None

\* Stage 2: RouterAgent.route, then get_history and the lookup of the agent
Route(c) ==
    LET r == run[c]
        decision == route(r.structured_query, ROUTING_TABLE, ESCALATION_TRIGGERS)
        history == get_history(heap[r.session], 5)
        r2 == [r EXCEPT !.routing_decision = decision,
                        !.conversation_history = history]
    IN  /\ r.pc = "routing"
        /\ run' = [run EXCEPT ![c] =
                     IF PrimaryAgent(decision) # None
                     THEN [Goto(r2, "executing") EXCEPT !.agent = PrimaryAgent(decision)]
                     ELSE process_except(r2, heap[r.session], "No agents available")]
        /\ UNCHANGED << _sessions, heap, now, uuid_count, rq, rd, aq, ar >>

\* Mutant of AfterFallback: the primary agent is tried once more
AfterFallback_retry_primary(r, session) ==
    IF Len(r.attempts) < 3
    THEN [Goto(r, "executing") EXCEPT !.agent = PrimaryAgent(r.routing_decision)]
    ELSE process_except(r, session, "All agents failed")

\* Mutant of AfterFallback: the general agent is never tried as a last resort
AfterFallback_give_up(r, session) ==
    process_except(r, session, "All agents failed")

\* _execute_action after the fallback failed or was not tried: the last resort
AfterFallback(r, session) ==
    IF "general_agent" \in DOMAIN action_agents
       /\ r.routing_decision.target_agent # "general_agent"
    THEN [Goto(r, "general") EXCEPT !.agent = "general_agent"]
    ELSE process_except(r, session, "All agents failed")

\* Mutant of AfterPrimary: after the primary agent raised the query is
\* routed once more before the next attempt
AfterPrimary_reroute(r, session) ==
    IF Len(r.attempts) < 2 THEN Goto(r, "routing")
    ELSE AfterFallback(r, session)

\* Mutant of AfterPrimary: the fallback agent of the decision is ignored
AfterPrimary_skip_fallback(r, session) == AfterFallback(r, session)

\* _execute_action after the primary agent raised
AfterPrimary(r, session) ==
    LET fallback_agent == r.routing_decision.fallback_agent
    IN  IF fallback_agent # None /\ fallback_agent # ""
           /\ fallback_agent \in DOMAIN action_agents
        THEN [Goto(r, "fallback") EXCEPT !.agent = fallback_agent]
        ELSE AfterFallback(r, session)

\* Mutant of AfterGeneral: the general agent is called again after it raised
AfterGeneral_retry(r, session) ==
    IF Len(r.attempts) < 4
    THEN [Goto(r, "general") EXCEPT !.agent = "general_agent"]
    ELSE process_except(r, session, "All agents failed")

\* _execute_action after the general agent raised
AfterGeneral(r, session) == process_except(r, session, "All agents failed")

\* the run with the failed call of its current agent added to its attempts
Failed(r) ==
    [r EXCEPT !.attempts = Append(@, [agent |-> r.agent, ok |-> FALSE, out |-> << >>])]

\* Mutant of Attempt: a raising agent is answered with an error result that
\* _execute_action returns as if it were the agent's own
Attempt_swallow(r, out, next) ==
    IF out # << >>
    THEN [Goto(r, "recording") EXCEPT
             !.attempts = Append(@, [agent |-> r.agent, ok |-> TRUE, out |-> out]),
             !.response = out[1]]
    ELSE [Goto(r, "recording") EXCEPT
             !.attempts = Append(@, [agent |-> r.agent, ok |-> FALSE, out |-> << >>]),
             !.response = error_response("All agents failed")]

\* one agent.execute call of _execute_action: the run after the call returned
\* out = << result >>, or raised (out = << >>) and the chain goes on with next
Attempt(r, out, next) ==
    IF out # << >>
    THEN [Goto(r, "recording") EXCEPT
             !.attempts = Append(@, [agent |-> r.agent, ok |-> TRUE, out |-> out]),
             !.response = out[1]]
    ELSE next

\* Stage 3, the try block of _execute_action: the primary agent
ExecutePrimary(c) ==
    LET r == run[c]
    IN  /\ r.pc = "executing"
        /\ \E env \in Envs :
              LET out == execute(r.agent, r.routing_decision, r.conversation_history,
                                 env, uuid_count + 1)
                  r2 == Failed(r)
              IN  run' = [run EXCEPT ![c] =
                            Attempt(r, out, AfterPrimary(r2, heap[r.session]))]
        /\ uuid_count' = IF DrawsUuid(r.agent) THEN uuid_count + 1 ELSE uuid_count
        /\ UNCHANGED << _sessions, heap, now, rq, rd, aq, ar >>

\* Stage 3, the first except branch of _execute_action: the fallback agent
ExecuteFallback(c) ==
    LET r == run[c]
    IN  /\ r.pc = "fallback"
        /\ \E env \in Envs :
              LET out == execute(r.agent, r.routing_decision, r.conversation_history,
                                 env, uuid_count + 1)
                  r2 == Failed(r)
              IN  run' = [run EXCEPT ![c] =
                            Attempt(r, out, AfterFallback(r2, heap[r.session]))]
        /\ uuid_count' = IF DrawsUuid(r.agent) THEN uuid_count + 1 ELSE uuid_count
        /\ UNCHANGED << _sessions, heap, now, rq, rd, aq, ar >>

\* Stage 3, the last resort of _execute_action: the general agent
ExecuteGeneral(c) ==
    LET r == run[c]
    IN  /\ r.pc = "general"
        /\ \E env \in Envs :
              LET out == execute(r.agent, r.routing_decision, r.conversation_history,
                                 env, uuid_count + 1)
                  r2 == Failed(r)
              IN  run' = [run EXCEPT ![c] =
                            Attempt(r, out, AfterGeneral(r2, heap[r.session]))]
        /\ uuid_count' = IF DrawsUuid(r.agent) THEN uuid_count + 1 ELSE uuid_count
        /\ UNCHANGED << _sessions, heap, now, rq, rd, aq, ar >>

\* the capability the recorded turn names: process passes
\* routing=routing_decision.target_agent
RecordedRouting(r) == r.routing_decision.target_agent

\* Mutant of Record: the turn is added to the session as the call found it
Record_to_snapshot(c) ==
    LET r == run[c]
        session == r.before[r.session]
    IN  /\ r.pc = "recording"
        /\ heap' = [heap EXCEPT ![r.session] =
                      add_turn(session, r.user_message, r.response.content,
                               r.structured_query.intent,
                               get_entities_dict(r.structured_query),
                               RecordedRouting(r), r.response.confidence,
                               Uuid(uuid_count + 1), now)]
        /\ uuid_count' = uuid_count + 1
        /\ run' = [run EXCEPT ![c] =
                     [Goto(r, "done") EXCEPT
                        !.recorded = uuid_count + 1,
                        !.result = << [response |-> r.response,
                                       session_id |-> session.session_id] >>]]
        /\ UNCHANGED << _sessions, now, rq, rd, aq, ar >>

\* process after _execute_action returned: session.add_turn and the return
Record(c) ==
    LET r == run[c]
        session == heap[r.session]
    IN  /\ r.pc = "recording"
        /\ heap' = [heap EXCEPT ![r.session] =
                      add_turn(session, r.user_message, r.response.content,
                               r.structured_query.intent,
                               get_entities_dict(r.structured_query),
                               RecordedRouting(r), r.response.confidence,
                               Uuid(uuid_count + 1), now)]
        /\ uuid_count' = uuid_count + 1
        /\ run' = [run EXCEPT ![c] =
                     [Goto(r, "done") EXCEPT
                        !.recorded = uuid_count + 1,
                        !.result = << [response |-> r.response,
                                       session_id |-> session.session_id] >>]]
        /\ UNCHANGED << _sessions, now, rq, rd, aq, ar >>

\* the caller takes the returned pair
Return(c) ==
    /\ run[c].pc = "done"
    /\ run' = [run EXCEPT ![c] = IdleRun]
    /\ UNCHANGED << _sessions, heap, now, uuid_count, rq, rd, aq, ar >>

\* the ids a caller passes: none, the empty string, an id of its own, or a
\* stored id (one an earlier call returned)
SuppliedIds == {None, "", "s1"} \cup DOMAIN _sessions

\* no other process call is in flight
NoOtherRun(c) == \A d \in Calls \ {c} : run[d].pc = "idle"

Init ==
    /\ _sessions = [k \in {} |-> 0]
    /\ heap = << >>
    /\ run = [c \in Calls |-> IdleRun]
    /\ now = 0
    /\ uuid_count = 0
    /\ rq = << >>
    /\ rd = << >>
    /\ aq = << >>
    /\ ar = << >>

\* one caller: the process calls run one after the other
Next ==
    \E c \in {"c1"} :
        \/ \E m \in Messages, sid \in SuppliedIds : NoOtherRun(c) /\ Call(c, m, sid)
        \/ Validate(c)
        \/ Understand(c)
        \/ Route(c)
        \/ ExecutePrimary(c)
        \/ ExecuteFallback(c)
        \/ ExecuteGeneral(c)
        \/ Record(c)
        \/ Return(c)

Spec == Init /\ [][Next]_vars

\* A single fair run sequence: every step of a process call that can be
\* taken is eventually taken (each collaborator call returns or raises)
LiveNext ==
    \E c \in {"c1"} :
        \/ \E m \in Messages, sid \in SuppliedIds :
              now < MaxLiveRuns /\ NoOtherRun(c) /\ Call(c, m, sid)
        \/ Validate(c)
        \/ Understand(c)
        \/ Route(c)
        \/ ExecutePrimary(c)
        \/ ExecuteFallback(c)
        \/ ExecuteGeneral(c)
        \/ Record(c)
        \/ Return(c)

Fairness ==
    \A c \in {"c1"} :
        /\ WF_vars(Validate(c))
        /\ WF_vars(Understand(c))
        /\ WF_vars(Route(c))
        /\ WF_vars(ExecutePrimary(c))
        /\ WF_vars(ExecuteFallback(c))
        /\ WF_vars(ExecuteGeneral(c))
        /\ WF_vars(Record(c))

LiveSpec == Init /\ [][LiveNext]_vars /\ Fairness

\* ------------------------------------------------------------------------
\* The pipeline with a primary agent that fails on its own: _execute_action
\* calls agent.execute of whatever BaseActionAgent is registered inside
\* try / except Exception, so the call of any agent, the escalation agent
\* included, may end in the except branch
\* ------------------------------------------------------------------------
\* the try block of _execute_action when agent.execute raises
ExecutePrimaryRaises(c) ==
    LET r == run[c]
    IN  /\ r.pc = "executing"
        /\ run' = [run EXCEPT ![c] = AfterPrimary(Failed(r), heap[r.session])]
        /\ UNCHANGED << _sessions, heap, now, uuid_count, rq, rd, aq, ar >>

FaultNext ==
    \/ LiveNext
    \/ \E c \in {"c1"} : ExecutePrimaryRaises(c)

FaultSpec == Init /\ [][FaultNext]_vars

\* ------------------------------------------------------------------------
\* Several callers and the session sweep: process calls made by a host that
\* does not wait for one call to return before it makes the next.  A call
\* can be overtaken wherever process awaits a collaborator: between
\* get_or_create and analyze, between analyze and the execute calls, and
\* between the last execute call and add_turn.  SessionManager has no lock.
\* ------------------------------------------------------------------------
\* the messages and the id of the overlapping calls
ConcMessages == { <<"H", "e", "l", "l", "o", "!">> }

ConcIds == {"s1"}

\* the max_age_minutes a sweep is called with, in ticks of the clock
SweepAges == {0, 1}

\* the store without the key
Without(store, key) == [k \in (DOMAIN store) \ {key} |-> store[k]]

\* SessionManager.delete, which AgentPipeline.clear_session calls
delete(session_id) ==
    /\ session_id \in DOMAIN _sessions
    /\ _sessions' = Without(_sessions, session_id)
    /\ UNCHANGED << heap, run, now, uuid_count, rq, rd, aq, ar >>

\* SessionManager.cleanup_old_sessions
cleanup_old_sessions(max_age_minutes) ==
    LET cutoff == now - max_age_minutes
        old_sessions == { sid \in DOMAIN _sessions :
                             heap[_sessions[sid]].last_activity < cutoff }
    IN  /\ _sessions' = [k \in (DOMAIN _sessions) \ old_sessions |-> _sessions[k]]
        /\ UNCHANGED << heap, run, now, uuid_count, rq, rd, aq, ar >>

\* what the completion service does for the overlapping calls: it fails, or
\* it returns an intent outside the taxonomy and no confidence
ConcClassified(r) ==
    "intent" \in DOMAIN r.structured_query =>
        /\ r.structured_query.intent = "unknown"
        /\ r.structured_query.confidence = 50

ConcNext ==
    \/ \E c \in Calls :
          \/ \E m \in ConcMessages, sid \in ConcIds : Call(c, m, sid)
          \/ Validate(c)
          \/ Understand(c) /\ ConcClassified(run'[c])
          \/ Route(c)
          \/ ExecutePrimary(c)
          \/ ExecuteFallback(c)
          \/ ExecuteGeneral(c)
          \/ Record(c)
          \/ Return(c)
    \/ \E max_age_minutes \in SweepAges : cleanup_old_sessions(max_age_minutes)
    \/ \E sid \in ConcIds : delete(sid)

ConcSpec == Init /\ [][ConcNext]_vars

\* ------------------------------------------------------------------------
\* Two callers whose process calls on one session id overlap, without
\* delete and without the sweep
\* ------------------------------------------------------------------------
OverlapNext ==
    \E c \in Calls :
        \/ \E m \in ConcMessages, sid \in ConcIds : Call(c, m, sid)
        \/ Validate(c)
        \/ Understand(c) /\ ConcClassified(run'[c])
        \/ Route(c)
        \/ ExecutePrimary(c)
        \/ ExecuteFallback(c)
        \/ ExecuteGeneral(c)
        \/ Record(c)
        \/ Return(c)

OverlapSpec == Init /\ [][OverlapNext]_vars

\* ------------------------------------------------------------------------
\* The sweep between the process calls of one caller, with what it returns
\* ------------------------------------------------------------------------
\* Mutant of cleanup_old_sessions_call: a session last active at the cutoff
\* is removed too
cleanup_old_sessions_call_at_cutoff(max_age_minutes) ==
    LET cutoff == now - max_age_minutes
        old_sessions == { sid \in DOMAIN _sessions : heap[_sessions[sid]].last_activity <= cutoff }
    IN  /\ _sessions' = [k \in (DOMAIN _sessions) \ old_sessions |-> _sessions[k]]
        /\ ar' = << [max_age_minutes |-> max_age_minutes,
                     returned |-> Cardinality(old_sessions)] >>
        /\ UNCHANGED << heap, run, now, uuid_count, rq, rd, aq >>

\* SessionManager.cleanup_old_sessions with its return value, len(old_sessions)
cleanup_old_sessions_call(max_age_minutes) ==
    LET cutoff == now - max_age_minutes
        old_sessions == { sid \in DOMAIN _sessions : heap[_sessions[sid]].last_activity < cutoff }
    IN  /\ _sessions' = [k \in (DOMAIN _sessions) \ old_sessions |-> _sessions[k]]
        /\ ar' = << [max_age_minutes |-> max_age_minutes,
                     returned |-> Cardinality(old_sessions)] >>
        /\ UNCHANGED << heap, run, now, uuid_count, rq, rd, aq >>

\* the session ids the caller supplies between the sweeps
SweepIds == {None, "s1"}

SweepNext ==
    \/ \E c \in {"c1"} :
          \/ \E m \in ConcMessages, sid \in SweepIds : Call(c, m, sid)
          \/ Validate(c)
          \/ Understand(c) /\ ConcClassified(run'[c])
          \/ Route(c)
          \/ ExecutePrimary(c)
          \/ ExecuteFallback(c)
          \/ ExecuteGeneral(c)
          \/ Record(c)
          \/ Return(c)
    \/ \E max_age_minutes \in SweepAges : cleanup_old_sessions_call(max_age_minutes)

SweepSpec == Init /\ [][SweepNext]_vars

\* ------------------------------------------------------------------------
\* One process call on a store that holds a conversation of some length:
\* session s1 with the turns of earlier successful calls, and session s2 of
\* another conversation
\* ------------------------------------------------------------------------
\* the turn the i-th successful call of a conversation recorded
EarlierTurn(i, tag) ==
    [turn_id        |-> Uuid(i),
     timestamp      |-> 0,
     user_message   |-> << tag, ToString(i) >>,
     agent_response |-> << "<completion>", tag, ToString(i) >>,
     intent         |-> "general_chat",
     entities       |-> EmptyDict,
     routing        |-> "general_agent",
     confidence     |-> 80]

\* the session after n successful calls
SessionWithTurns(session_id, n, tag) ==
    [NewSession(session_id, 0) EXCEPT
        !.turns = [i \in 1..n |-> EarlierTurn(i, tag)],
        !.context = IF n = 0 THEN @ ELSE [all_entities |-> EmptyDict]]

HistoryInit ==
    /\ \E n \in 0..MaxTurns :
          heap = << SessionWithTurns("s1", n, "q"), SessionWithTurns("s2", 1, "x") >>
    /\ _sessions = [k \in {"s1", "s2"} |-> IF k = "s1" THEN 1 ELSE 2]
    /\ run = [c \in Calls |-> IdleRun]
    /\ now = 0
    /\ uuid_count = MaxTurns + 1
    /\ rq = << >>
    /\ rd = << >>
    /\ aq = << >>
    /\ ar = << >>

HistorySpec == HistoryInit /\ [][LiveNext]_vars

\* ------------------------------------------------------------------------
\* QueryAgent.analyze exercised alone: analyze applied to every message and
\* every behaviour of the completion service below
\* ------------------------------------------------------------------------
\* the intent field of the JSON object: absent, an intent of the taxonomy,
\* or a string outside it
IntentFields ==
    { [present |-> FALSE, value |-> ""] }
        \cup { [present |-> TRUE, value |-> i] :
                  i \in Intent \cup {"no_such_intent", "GENERAL_CHAT", ""} }

\* the confidence field of the JSON object: absent, a number (of the range
\* 0..1, below it or above it), or null
ConfidenceFields ==
    { [present |-> FALSE, value |-> << >>],
      [present |-> TRUE, value |-> << 30 >>],
      [present |-> TRUE, value |-> << 90 >>],
      [present |-> TRUE, value |-> << -20 >>],
      [present |-> TRUE, value |-> << 150 >>],
      [present |-> TRUE, value |-> << >>] }

\* the JSON object with the fields that are present
JsonObject(intent, confidence) ==
    (IF intent.present THEN [intent |-> intent.value] ELSE [k \in {} |-> ""])
        @@ (IF confidence.present THEN [confidence |-> confidence.value]
            ELSE [k \in {} |-> ""])
        @@ [entities |-> EmptyDict, urgency |-> "low"]

AnalyzeResponses ==
    { JsonObject(i, c) : i \in IntentFields, c \in ConfidenceFields }

AnalyzeBehaviours ==
    { [kind |-> "raises"], [kind |-> "invalid_json"] }
        \cup { [kind |-> "ok", response |-> r] : r \in AnalyzeResponses }

AnalyzeInit ==
    /\ _sessions = [k \in {} |-> 0]
    /\ heap = << >>
    /\ run = [c \in Calls |-> IdleRun]
    /\ now = 0
    /\ uuid_count = 0
    /\ rq = << >>
    /\ rd = << >>
    /\ aq \in [query : Messages, behaviour : AnalyzeBehaviours]
    /\ ar = << >>

\* await query_agent.analyze(query)
AnalyzeCall ==
    /\ ar = << >>
    /\ ar' = << analyze_call(aq.query, << >>, aq.behaviour) >>
    /\ UNCHANGED << _sessions, heap, run, now, uuid_count, rq, rd, aq >>

AnalyzeNext == AnalyzeCall

AnalyzeSpec == AnalyzeInit /\ [][AnalyzeNext]_vars

\* ------------------------------------------------------------------------
\* The router exercised alone: route applied to every QueryResult built from
\* the vocabulary below
\* ------------------------------------------------------------------------
\* every safety keyword in some letter case, a legal keyword, a general
\* keyword, a word without a keyword, a word with a keyword inside it, and
\* the keyword of the legal group of the list that the legal branch omits
Vocabulary ==
    { <<"S", "u", "i", "c", "i", "d", "e">>,
      <<"H", "A", "R", "M">>,
      <<"H", "u", "r", "t", " ", "M", "y", "s", "e", "l", "f">>,
      <<"k", "i", "l", "l">>,
      <<"D", "I", "E">>,
      <<"l", "a", "w", "y", "e", "r">>,
      <<"m", "a", "n", "a", "g", "e", "r">>,
      <<"h", "e", "l", "l", "o">>,
      <<"i", "s", "s", "u", "e">>,
      <<"L", "A", "W", "S", "U", "I", "T">> }

WordLists == UNION { [1..n -> Vocabulary] : n \in 0..MaxWords }

RouteTexts == { Join(ws, << " " >>) : ws \in WordLists }

RouteEntities ==
    { EmptyDict,
      [ticket_id |-> <<"T", "K", "T", "-", "1", "2", "3", "4", "5">>,
       topic |-> <<"w", "i", "f", "i">>] }

RouteQueries ==
    [original_query         : RouteTexts,
     intent                 : Intent,
     entities               : RouteEntities,
     confidence             : {30, 60, 90},
     requires_clarification : BOOLEAN,
     clarification_question : {PyNone},
     metadata               : [urgency : {"low", "medium", "high", "critical"}]]

RouteInit ==
    /\ _sessions = [k \in {} |-> 0]
    /\ heap = << >>
    /\ run = [c \in Calls |-> IdleRun]
    /\ now = 0
    /\ uuid_count = 0
    /\ rq \in { << q >> : q \in RouteQueries }
    /\ rd = << >>
    /\ aq = << >>
    /\ ar = << >>

\* await router.route(query)
RouteCall ==
    /\ rd = << >>
    /\ rd' = << route(rq[1], ROUTING_TABLE, ESCALATION_TRIGGERS) >>
    /\ UNCHANGED << _sessions, heap, run, now, uuid_count, rq, aq, ar >>

RouteNext == RouteCall

RouteSpec == RouteInit /\ [][RouteNext]_vars

\* ------------------------------------------------------------------------
\* The action agents exercised alone: a QueryResult is routed and the
\* decision is handed to the execute method of one registered agent
\* ------------------------------------------------------------------------
\* the values of the ticket_id entity: empty, a known ticket in lower case,
\* a known ticket without the prefix, a known ticket as stored, unknown ones
TicketIds ==
    { << >>,
      <<"t", "k", "t", "-", "1", "2", "3", "4", "5">>,
      <<"1", "2", "3", "4", "5">>,
      <<"T", "K", "T", "-", "6", "7", "8", "9", "0">>,
      <<"T", "K", "T", "-", "9", "9">>,
      <<"9", "9">> }

AgentEntities == { EmptyDict } \cup { [ticket_id |-> v] : v \in TicketIds }

\* the clarification question of the classifier: null, empty, or a question
ClarificationQuestions == { PyNone, << >>, << "<which ticket?>" >> }

\* QueryResults with every text of the vocabulary, and QueryResults of a
\* text without keywords with the intents, entities, confidences and
\* clarification requests that decide what the agents are handed
AgentQueries ==
    [original_query         : RouteTexts,
     intent                 : {"general_chat"},
     entities               : {EmptyDict},
     confidence             : {90},
     requires_clarification : {FALSE},
     clarification_question : {PyNone},
     metadata               : [urgency : {"low"}]]
    \cup
    [original_query         : { <<"h", "e", "l", "l", "o">> },
     intent                 : {"knowledge_query", "ticket_status", "password_reset", "unknown"},
     entities               : AgentEntities,
     confidence             : {30, 90},
     requires_clarification : BOOLEAN,
     clarification_question : ClarificationQuestions,
     metadata               : [urgency : {"low"}]]

AgentInit ==
    /\ _sessions = [k \in {} |-> 0]
    /\ heap = << >>
    /\ run = [c \in Calls |-> IdleRun]
    /\ now = 0
    /\ uuid_count \in 0..1
    /\ rq \in { << q >> : q \in AgentQueries }
    /\ rd = << >>
    /\ aq \in [env : Envs]
    /\ ar = << >>

\* await router.route(query)
AgentRoute ==
    /\ rd = << >>
    /\ rd' = << route(rq[1], ROUTING_TABLE, ESCALATION_TRIGGERS) >>
    /\ UNCHANGED << _sessions, heap, run, now, uuid_count, rq, aq, ar >>

\* await agent.execute(decision, conversation_history) of the agent `name`
AgentExecute(name) ==
    /\ rd # << >>
    /\ ar = << >>
    /\ ar' = << [agent |-> name]
                @@ execute_call(name, rd[1], << >>, aq.env, uuid_count + 1) >>
    /\ uuid_count' = IF DrawsUuid(name) THEN uuid_count + 1 ELSE uuid_count
    /\ UNCHANGED << _sessions, heap, run, now, rq, rd, aq >>

AgentNext ==
    \/ AgentRoute
    \/ \E name \in DOMAIN action_agents : AgentExecute(name)

AgentSpec == AgentInit /\ [][AgentNext]_vars

\* ------------------------------------------------------------------------
\* Several RouterAgent instances: ROUTING_TABLE and ESCALATION_TRIGGERS are
\* attributes of the class, __init__ sets client and model only.  aq holds
\* the attributes of the class and the __dict__ of every instance, ar the
\* calls made so far (constructions and changes), rq and rd the last query
\* routed and << the router, its decision >>.
\* ------------------------------------------------------------------------
\* self.<name>: the attribute of the instance, else that of the class
getattr(i, name) ==
    IF name \in DOMAIN aq.routers[i] THEN aq.routers[i][name] ELSE aq.class[name]

ChangedIntents == {"general_chat", "escalation"}
ChangedAgents == {"ticket_agent", "general_agent"}
NewTriggers == { <<"R", "E", "F", "U", "N", "D">>, <<"h", "e", "l", "l", "o">> }

SharedQueries ==
    [original_query         : { <<"r", "e", "f", "u", "n", "d">>, <<"h", "e", "l", "l", "o">> },
     intent                 : ChangedIntents,
     entities               : {EmptyDict},
     confidence             : {90},
     requires_clarification : {FALSE},
     clarification_question : {PyNone},
     metadata               : [urgency : {"low"}]]

SharedInit ==
    /\ _sessions = [k \in {} |-> 0]
    /\ heap = << >>
    /\ run = [c \in Calls |-> IdleRun]
    /\ now = 0
    /\ uuid_count = 0
    /\ rq = << >>
    /\ rd = << >>
    /\ aq = [class   |-> [ROUTING_TABLE       |-> ROUTING_TABLE,
                          ESCALATION_TRIGGERS |-> ESCALATION_TRIGGERS],
             routers |-> << [model |-> "gpt-4o"] >>]
    /\ ar = << >>

\* RouterAgent(): a further instance
RouterAgent_init ==
    /\ Len(ar) < MaxChanges
    /\ aq' = [aq EXCEPT !.routers = Append(@, [model |-> "gpt-4o"])]
    /\ ar' = Append(ar, [call |-> "RouterAgent"])
    /\ UNCHANGED << _sessions, heap, run, now, uuid_count, rq, rd >>

\* Mutant of update_routing: the instance gets a table of its own
update_routing_own_table(i, intent, primary_agent, fallback_agent) ==
    /\ Len(ar) < MaxChanges
    /\ aq' = [aq EXCEPT !.routers[i] =
                 [ROUTING_TABLE |->
                     [getattr(i, "ROUTING_TABLE") EXCEPT
                         ![intent] = << primary_agent, fallback_agent >>],
                  model |-> @.model]]
    /\ ar' = Append(ar, [call |-> "update_routing", router |-> i, intent |-> intent,
                         entry |-> << primary_agent, fallback_agent >>])
    /\ UNCHANGED << _sessions, heap, run, now, uuid_count, rq, rd >>

\* RouterAgent.update_routing on instance i: the item assignment goes to
\* the dict self.ROUTING_TABLE resolves to, the dict of the class
update_routing(i, intent, primary_agent, fallback_agent) ==
    /\ Len(ar) < MaxChanges
    /\ aq' = [aq EXCEPT !.class.ROUTING_TABLE[intent] =
                 << primary_agent, fallback_agent >>]
    /\ ar' = Append(ar, [call |-> "update_routing", router |-> i, intent |-> intent,
                         entry |-> << primary_agent, fallback_agent >>])
    /\ UNCHANGED << _sessions, heap, run, now, uuid_count, rq, rd >>

\* RouterAgent.add_escalation_trigger on instance i
add_escalation_trigger(i, trigger) ==
    /\ Len(ar) < MaxChanges
    /\ aq' = [aq EXCEPT !.class.ESCALATION_TRIGGERS =
                 IF lower(trigger) \notin SeqToSet(@) THEN Append(@, lower(trigger))
                 ELSE @]
    /\ ar' = Append(ar, [call |-> "add_escalation_trigger", router |-> i,
                         trigger |-> trigger])
    /\ UNCHANGED << _sessions, heap, run, now, uuid_count, rq, rd >>

\* await router.route(query) on instance i
SharedRoute(i, query) ==
    /\ rq' = << query >>
    /\ rd' = << [router   |-> i,
                 decision |-> route(query, getattr(i, "ROUTING_TABLE"),
                                    getattr(i, "ESCALATION_TRIGGERS"))] >>
    /\ UNCHANGED << _sessions, heap, run, now, uuid_count, aq, ar >>

SharedNext ==
    \/ RouterAgent_init
    \/ \E i \in 1..Len(aq.routers) :
          \/ \E intent \in ChangedIntents, primary_agent \in ChangedAgents :
                update_routing(i, intent, primary_agent, None)
          \/ \E trigger \in NewTriggers : add_escalation_trigger(i, trigger)
          \/ \E query \in SharedQueries : SharedRoute(i, query)

SharedSpec == SharedInit /\ [][SharedNext]_vars

\* ------------------------------------------------------------------------
\* Properties
\* ------------------------------------------------------------------------
\* the five safety keywords of the specification
SafetyKeywords ==
    { <<"s", "u", "i", "c", "i", "d", "e">>,
      <<"h", "a", "r", "m">>,
      <<"h", "u", "r", "t", " ", "m", "y", "s", "e", "l", "f">>,
      <<"k", "i", "l", "l">>,
      <<"d", "i", "e">> }

\* the letter a is the lower-case letter b in either case
SameLetter(a, b) == a = b \/ (a \in DOMAIN UpperToLower /\ UpperToLower[a] = b)

\* the lower-case keyword occurs in the text in some letter case
OccursIgnoringCase(text, keyword) ==
    \E i \in 0..(Len(text) - Len(keyword)) :
        \A j \in 1..Len(keyword) : SameLetter(text[i + j], keyword[j])

HasSafetyKeyword(text) == \E k \in SafetyKeywords : OccursIgnoringCase(text, k)

\* C10: whenever the raw text of the query contains a safety keyword in any
\* letter case, the decision route returns has requires_escalation true,
\* priority urgent, the escalation agent as target and no fallback agent,
\* whatever the intent, the confidence and the clarification flag are.
C10_SafetyKeywordEscalatesUrgent ==
    (rd # << >> /\ HasSafetyKeyword(rq[1].original_query)) =>
        /\ rd[1].requires_escalation = TRUE
        /\ rd[1].priority = "urgent"
        /\ rd[1].target_agent = "escalation_agent"
        /\ rd[1].fallback_agent = None

\* a routed query with an upper-case safety keyword next to a legal keyword,
\* flagged for clarification and of low confidence
C10_Witness ==
    /\ rd # << >>
    /\ rq[1].original_query =
           <<"l", "a", "w", "y", "e", "r", " ", "D", "I", "E">>
    /\ rq[1].requires_clarification
    /\ rq[1].confidence < CONFIDENCE_THRESHOLD
    /\ rd[1].priority = "urgent"

\* ------------------------------------------------------------------------
\* Properties of RouterAgent.route
\* ------------------------------------------------------------------------
\* the legal keywords of the trigger list
LegalKeywords ==
    { <<"l", "a", "w", "y", "e", "r">>,
      <<"a", "t", "t", "o", "r", "n", "e", "y">>,
      <<"l", "e", "g", "a", "l">>,
      <<"s", "u", "e">>,
      <<"l", "a", "w", "s", "u", "i", "t">> }

\* the keywords of frustration, urgency and explicit requests for a person
GeneralKeywords ==
    { <<"s", "u", "p", "e", "r", "v", "i", "s", "o", "r">>,
      <<"m", "a", "n", "a", "g", "e", "r">>,
      <<"c", "o", "m", "p", "l", "a", "i", "n", "t">>,
      <<"i", "n", "c", "o", "m", "p", "e", "t", "e", "n", "t">>,
      <<"e", "m", "e", "r", "g", "e", "n", "c", "y">>,
      <<"u", "r", "g", "e", "n", "t">>,
      <<"i", "m", "m", "e", "d", "i", "a", "t", "e", "l", "y">>,
      <<"r", "i", "g", "h", "t", " ", "n", "o", "w">>,
      <<"a", "s", "a", "p">>,
      <<"h", "u", "m", "a", "n">>,
      <<"r", "e", "a", "l", " ", "p", "e", "r", "s", "o", "n">>,
      <<"s", "p", "e", "a", "k", " ", "t", "o", " ", "s", "o", "m", "e", "o", "n", "e">>,
      <<"t", "a", "l", "k", " ", "t", "o", " ", "s", "o", "m", "e", "o", "n", "e">> }

HasLegalKeyword(text) == \E k \in LegalKeywords : OccursIgnoringCase(text, k)

HasGeneralKeyword(text) == \E k \in GeneralKeywords : OccursIgnoringCase(text, k)

HasTriggerKeyword(text) ==
    HasSafetyKeyword(text) \/ HasLegalKeyword(text) \/ HasGeneralKeyword(text)

\* C11: every routed text with a trigger keyword in any letter case goes to
\* the escalation agent with requires_escalation true; with a legal keyword
\* and no safety keyword the priority is high, with general keywords only
\* it is high, and with a safety keyword next to a legal keyword it is
\* urgent and the reason is the safety reason.
C11_TriggerScanClassOrder ==
    rd # << >> =>
        LET text == rq[1].original_query
        IN  /\ HasTriggerKeyword(text) =>
                  /\ rd[1].target_agent = "escalation_agent"
                  /\ rd[1].requires_escalation = TRUE
            /\ (HasLegalKeyword(text) /\ ~HasSafetyKeyword(text)) =>
                  rd[1].priority = "high"
            /\ (HasGeneralKeyword(text) /\ ~HasLegalKeyword(text)
                    /\ ~HasSafetyKeyword(text)) =>
                  rd[1].priority = "high"
            /\ (HasSafetyKeyword(text) /\ HasLegalKeyword(text)) =>
                  /\ rd[1].priority = "urgent"
                  /\ rd[1].escalation_reason = SafetyReason

\* a routed text with a legal keyword before an upper-case safety keyword,
\* and none of it flagged by the classifier
C11_Witness ==
    /\ rd # << >>
    /\ rq[1].original_query =
           <<"l", "a", "w", "y", "e", "r", " ", "H", "A", "R", "M">>
    /\ rq[1].intent = "general_chat"
    /\ ~rq[1].requires_clarification
    /\ rq[1].confidence = 90
    /\ rd[1].priority = "urgent"
    /\ rd[1].requires_escalation

\* C12 as stated: every routed query with confidence below 0.6 goes to the
\* clarification agent, whatever its intent.
C12_LowConfidenceClarifies ==
    (rd # << >> /\ rq[1].confidence < 60) =>
        rd[1].target_agent = "clarification_agent"

\* C12 amended: every routed query with confidence below 0.6 and no trigger
\* keyword in its text goes to the clarification agent with the general
\* agent as fallback and priority medium, whatever its intent; with a
\* trigger keyword it goes to the escalation agent instead.
C12_LowConfidenceClarifiesUnlessTriggered ==
    (rd # << >> /\ rq[1].confidence < 60) =>
        IF HasTriggerKeyword(rq[1].original_query)
        THEN rd[1].target_agent = "escalation_agent"
        ELSE /\ rd[1].target_agent = "clarification_agent"
             /\ rd[1].fallback_agent = "general_agent"
             /\ rd[1].priority = "medium"
             /\ rd[1].requires_escalation = FALSE

\* a knowledge query of confidence 0.3 without a keyword, not flagged for
\* clarification, was sent to the clarification agent
C12_Witness ==
    /\ rd # << >>
    /\ rq[1].confidence = 30
    /\ rq[1].intent = "knowledge_query"
    /\ ~rq[1].requires_clarification
    /\ rq[1].original_query = <<"h", "e", "l", "l", "o">>
    /\ rd[1].target_agent = "clarification_agent"
    /\ rd[1].reasoning = "low_confidence"

\* C13: route returns the decision of the first of its four rules that
\* applies: the escalation decision when the text has a trigger keyword,
\* whatever the flag and the confidence are; else the clarification decision
\* carrying the classifier's question when the query is flagged, whatever
\* the confidence is; else the clarification decision carrying the
\* confidence when it is below 0.6; else the entry of the routing table.
C13_RulesInFixedOrder ==
    rd # << >> =>
        LET q == rq[1]
            d == rd[1]
        IN  IF HasTriggerKeyword(q.original_query)
            THEN /\ d.target_agent = "escalation_agent"
                 /\ d.requires_escalation = TRUE
                 /\ "triggered_keywords" \in DOMAIN d.parameters
            ELSE IF q.requires_clarification
            THEN /\ d.target_agent = "clarification_agent"
                 /\ d.fallback_agent = "general_agent"
                 /\ d.priority = "medium"
                 /\ DOMAIN d.parameters = {"question", "original_query", "intent_guess"}
            ELSE IF q.confidence < 60
            THEN /\ d.target_agent = "clarification_agent"
                 /\ d.fallback_agent = "general_agent"
                 /\ d.priority = "medium"
                 /\ DOMAIN d.parameters = {"intent_guess", "confidence", "original_query"}
            ELSE /\ d.target_agent = ROUTING_TABLE[q.intent][1]
                 /\ d.fallback_agent = ROUTING_TABLE[q.intent][2]
                 /\ "query" \in DOMAIN d.parameters

\* a flagged ticket query of confidence 0.9 without a keyword was sent to
\* the clarification agent by the second rule
C13_Witness ==
    /\ rd # << >>
    /\ rq[1].requires_clarification
    /\ rq[1].confidence = 90
    /\ rq[1].intent = "ticket_status"
    /\ rq[1].original_query = <<"h", "e", "l", "l", "o", " ", "h", "e", "l", "l", "o">>
    /\ rd[1].target_agent = "clarification_agent"
    /\ "question" \in DOMAIN rd[1].parameters
    /\ rd[1].priority = "medium"

\* the query reaches the table lookup of route
ReachesTable(q) ==
    /\ ~HasTriggerKeyword(q.original_query)
    /\ ~q.requires_clarification
    /\ q.confidence >= 60

\* C14: for a routed query that reaches the table lookup, target and
\* fallback agent are the table entry of its intent and the decision does
\* not escalate; the priority is the urgency hint when that is low, medium
\* or high and medium for any other hint, except that the escalation intent
\* always gets high.
C14_TableLookupAndPriority ==
    (rd # << >> /\ ReachesTable(rq[1])) =>
        LET q == rq[1]
            d == rd[1]
            urgency == q.metadata.urgency
        IN  /\ d.target_agent = ROUTING_TABLE[q.intent][1]
            /\ d.fallback_agent = ROUTING_TABLE[q.intent][2]
            /\ d.requires_escalation = FALSE
            /\ d.priority \in {"low", "medium", "high"}
            /\ d.priority =
                  IF q.intent = "escalation" THEN "high"
                  ELSE IF urgency \in {"low", "medium", "high"} THEN urgency
                  ELSE "medium"

\* a query of the escalation intent with confidence exactly 0.6 and the hint
\* low, without a keyword, got the escalation agent and priority high
C14_Witness ==
    /\ rd # << >>
    /\ ReachesTable(rq[1])
    /\ rq[1].intent = "escalation"
    /\ rq[1].confidence = 60
    /\ rq[1].metadata.urgency = "low"
    /\ rd[1].target_agent = "escalation_agent"
    /\ rd[1].fallback_agent = None
    /\ rd[1].priority = "high"

\* ------------------------------------------------------------------------
\* Properties of AgentPipeline.process
\* ------------------------------------------------------------------------
\* the message has a character that is not whitespace
NonEmptyMessage(m) == \E i \in 1..Len(m) : m[i] \notin Whitespace

Done(c) == run[c].pc = "done"

\* the ActionResult a finished run returned
Returned(c) == run[c].result[1].response

\* the value is an ActionResult: all six fields, confidence within [0, 1]
IsActionResult(x) ==
    /\ DOMAIN x = {"content", "sources", "confidence", "requires_followup",
                   "suggested_actions", "metadata"}
    /\ x.confidence \in 0..100
    /\ x.requires_followup \in BOOLEAN

\* the synthetic apology of process: the only result with an error in its metadata
IsApology(x) ==
    /\ "error" \in DOMAIN x.metadata
    /\ x.content = error_response("").content

AllFailed(attempts) == \A i \in 1..Len(attempts) : ~attempts[i].ok

Agents(attempts) == [i \in 1..Len(attempts) |-> attempts[i].agent]

Reached(r, pc) == \E i \in 1..Len(r.stages) : r.stages[i] = pc

\* the agents _execute_action is to try for a decision, in order: the target,
\* the fallback agent if one is set and registered, and the general agent
\* unless the target is the general agent
Chain(d) ==
    << (IF d.target_agent \in DOMAIN action_agents THEN d.target_agent
        ELSE "general_agent") >>
    \o (IF d.fallback_agent # None /\ d.fallback_agent \in DOMAIN action_agents
        THEN << d.fallback_agent >> ELSE << >>)
    \o (IF d.target_agent # "general_agent" THEN << "general_agent" >> ELSE << >>)

C2_RunsTerminateWithinThreeAttempts ==
    /\ \A c \in Calls : (run[c].pc \notin {"idle", "done"}) ~> Done(c)
    /\ [](\A c \in Calls : Len(run[c].attempts) <= 3)

\* a finished run that called the primary, the fallback and the general agent
C2_Witness ==
    \E c \in Calls : Done(c) /\ Len(run[c].attempts) = 3

\* the stage of the per-message state machine a position belongs to
StageOf(pc) ==
    CASE pc = "validating" -> "Validating"
      [] pc = "understanding" -> "Understanding"
      [] pc = "routing" -> "Routing"
      [] pc = "executing" -> "Executing"
      [] pc \in {"fallback", "general"} -> "FallbackExecuting"
      [] pc = "recording" -> "Recording"
      [] pc = "done" -> "Done"

RECURSIVE StageSeq(_)
\* the stages a run went through; the fallback and the last-resort attempt
\* together are the one stage FallbackExecuting
StageSeq(pcs) ==
    IF pcs = << >> THEN << >>
    ELSE IF Len(pcs) >= 2 /\ StageOf(pcs[1]) = "FallbackExecuting"
                          /\ StageOf(pcs[2]) = "FallbackExecuting"
    THEN StageSeq(Tail(pcs))
    ELSE << StageOf(pcs[1]) >> \o StageSeq(Tail(pcs))

IsPrefix(s, t) == Len(s) <= Len(t) /\ SubSeq(t, 1, Len(s)) = s

\* the two paths of the state machine as specified
PathsThroughRecording ==
    { << "Validating", "Understanding", "Routing", "Executing", "Recording", "Done" >>,
      << "Validating", "Understanding", "Routing", "Executing", "FallbackExecuting",
         "Recording", "Done" >> }

\* the paths on which a failed stage leads to Done directly
PathsOfFailure ==
    { << "Validating", "Understanding", "Done" >>,
      << "Validating", "Understanding", "Routing", "Executing", "Done" >>,
      << "Validating", "Understanding", "Routing", "Executing", "FallbackExecuting",
         "Done" >> }

\* C3 as stated: a finished run on a non-empty message went through
\* Validating, Understanding, Routing, Executing, optionally
\* FallbackExecuting, then Recording and Done.
C3_DoneOnlyThroughRecording ==
    \A c \in Calls :
        (Done(c) /\ NonEmptyMessage(run[c].user_message)) =>
            StageSeq(run[c].stages) \in PathsThroughRecording

\* C3 amended: the stages of a run on a non-empty message occur in the
\* specified order without repetition, except that a run whose
\* Understanding stage fails or whose capability attempts all fail goes
\* from that stage to Done without Recording; Routing starts only with the
\* StructuredQuery of Understanding, and Done is reached through Recording
\* exactly when a capability produced the result.
C3_StagesInOrder ==
    \A c \in Calls :
        (run[c].pc # "idle" /\ NonEmptyMessage(run[c].user_message)) =>
            /\ \E path \in PathsThroughRecording \cup PathsOfFailure :
                  IsPrefix(StageSeq(run[c].stages), path)
            /\ Reached(run[c], "routing") =>
                  /\ "intent" \in DOMAIN run[c].structured_query
                  /\ run[c].structured_query.original_query = run[c].user_message
            /\ Done(c) =>
                  (Reached(run[c], "recording") <=> ~IsApology(Returned(c)))

\* a run on a non-empty message that went from Understanding to Done
C3_Witness ==
    \E c \in Calls :
        /\ Done(c)
        /\ NonEmptyMessage(run[c].user_message)
        /\ StageSeq(run[c].stages) = << "Validating", "Understanding", "Done" >>

\* C4: the execute calls of a run follow the chain primary, fallback (if set
\* and registered), general agent (unless it was the target); an agent is
\* called only after every earlier call of the run raised, the result is
\* that of the one call that returned, and the run gives up only after the
\* whole chain raised.
C4_FallbackChainOrder ==
    \A c \in Calls :
        Reached(run[c], "executing") =>
            LET r == run[c]
                A == r.attempts
                chain == Chain(r.routing_decision)
            IN  /\ IsPrefix(Agents(A), chain)
                /\ \A i \in 1..(Len(A) - 1) : ~A[i].ok
                /\ r.pc \in {"executing", "fallback", "general"} =>
                      /\ AllFailed(A)
                      /\ Len(A) < Len(chain)
                      /\ r.agent = chain[Len(A) + 1]
                /\ r.pc = "recording" =>
                      (A # << >> /\ A[Len(A)].ok /\ r.response = A[Len(A)].out[1])
                /\ (Done(c) /\ ~IsApology(Returned(c))) =>
                      (A # << >> /\ A[Len(A)].ok /\ Returned(c) = A[Len(A)].out[1])
                /\ (Done(c) /\ IsApology(Returned(c))) =>
                      (AllFailed(A) /\ Agents(A) = chain)

\* a finished run whose primary agent raised and whose fallback, the
\* escalation agent, produced the result
C4_Witness ==
    \E c \in Calls :
        /\ Done(c)
        /\ Len(run[c].attempts) = 2
        /\ ~run[c].attempts[1].ok
        /\ run[c].attempts[2].ok
        /\ run[c].attempts[2].agent = "escalation_agent"
        /\ Returned(c).confidence = 100

\* the accumulated entities of a session
AllEntities(session) == DictGet(session.context, "all_entities", EmptyDict)

\* C5: a run whose execute calls all raised returns the apology with
\* confidence 0 and requires_followup true, does not raise, and leaves the
\* turns and the accumulated entities of its session as they were.
C5_AllFailedApologyNoTurn ==
    \A c \in Calls :
        (Done(c) /\ run[c].attempts # << >> /\ AllFailed(run[c].attempts)) =>
            LET r == run[c]
            IN  /\ ~r.raised
                /\ IsApology(Returned(c))
                /\ Returned(c).confidence = 0
                /\ Returned(c).requires_followup = TRUE
                /\ heap[r.session].turns = r.before[r.session].turns
                /\ AllEntities(heap[r.session]) = AllEntities(r.before[r.session])

\* three failed execute calls on a session that already has a turn
C5_Witness ==
    \E c \in Calls :
        /\ Done(c)
        /\ Len(run[c].attempts) = 3
        /\ AllFailed(run[c].attempts)
        /\ Len(heap[run[c].session].turns) = 1

\* C6 as stated: the apology is returned only after the primary, the
\* fallback and the general agent, all three, raised.
C6_ApologyOnlyAfterThreeFailures ==
    \A c \in Calls :
        (Done(c) /\ IsApology(Returned(c))) =>
            (Len(run[c].attempts) = 3 /\ AllFailed(run[c].attempts))

\* C6 amended: a run on a non-empty message returns the apology exactly
\* when its Understanding stage failed or every execute call of its
\* fallback chain (one, two or three calls) raised; a run in which an
\* execute call returned never ends in the apology.
C6_ApologyExactlyOnFailure ==
    \A c \in Calls :
        (Done(c) /\ NonEmptyMessage(run[c].user_message)) =>
            (IsApology(Returned(c)) <=>
                \/ ~Reached(run[c], "routing")
                \/ /\ run[c].attempts # << >>
                   /\ AllFailed(run[c].attempts)
                   /\ Agents(run[c].attempts) = Chain(run[c].routing_decision))

\* the apology after a single failed execute call: the general agent was the
\* target, so there is neither a fallback nor a last resort
C6_Witness ==
    \E c \in Calls :
        /\ Done(c)
        /\ IsApology(Returned(c))
        /\ Agents(run[c].attempts) = << "general_agent" >>

\* C7: the capability the recorded turn names is the one whose execute call
\* produced the response of the turn.
C7_TurnNamesProducingCapability ==
    \A c \in Calls :
        (Done(c) /\ Reached(run[c], "recording")) =>
            LET turns == heap[run[c].session].turns
                A == run[c].attempts
            IN  turns[Len(turns)].routing = A[Len(A)].agent

\* C8: a process call that returns a capability's result on session s has
\* appended exactly one turn to s, holding the input message and the content
\* and confidence of the returned result; s is stored under the returned id
\* and the turns of every other session are as before.
C8_SuccessAppendsOneTurn ==
    \A c \in Calls :
        (Done(c) /\ NonEmptyMessage(run[c].user_message) /\ ~IsApology(Returned(c))) =>
            LET r == run[c]
                turns == heap[r.session].turns
                n == Len(turns)
            IN  /\ n = Len(r.before[r.session].turns) + 1
                /\ SubSeq(turns, 1, n - 1) = r.before[r.session].turns
                /\ turns[n].user_message = r.user_message
                /\ turns[n].agent_response = Returned(c).content
                /\ turns[n].confidence = Returned(c).confidence
                /\ r.result[1].session_id = heap[r.session].session_id
                /\ _sessions[r.result[1].session_id] = r.session
                /\ Len(heap) = Len(r.before)
                /\ \A o \in 1..Len(heap) :
                      o # r.session => heap[o].turns = r.before[o].turns

\* a successful call on a session that already had a turn
C8_Witness ==
    \E c \in Calls :
        /\ Done(c)
        /\ Reached(run[c], "recording")
        /\ ~IsApology(Returned(c))
        /\ Len(heap[run[c].session].turns) = 2
        /\ Len(run[c].before[run[c].session].turns) = 1

\* the entities e are all present in the map with the same values
Present(e, map) == \A k \in DOMAIN e : k \in DOMAIN map /\ map[k] = e[k]

\* C9: no step removes an entity name from the accumulated entities of a
\* session; a step that records a turn leaves the names of the turn's
\* entities in the map, and leaves the map unchanged when the turn's
\* entities were already present with the same values.
C9_EntitiesOnlyGrow ==
    [][\A o \in 1..Len(heap) :
          /\ DOMAIN AllEntities(heap[o]) \subseteq DOMAIN AllEntities(heap'[o])
          /\ Len(heap'[o].turns) = Len(heap[o].turns) + 1 =>
                LET e == heap'[o].turns[Len(heap'[o].turns)].entities
                IN  /\ DOMAIN e \subseteq DOMAIN AllEntities(heap'[o])
                    /\ Present(e, AllEntities(heap[o])) =>
                          AllEntities(heap'[o]) = AllEntities(heap[o])]_vars

\* a session with two turns, the second with the entity of the first
C9_Witness ==
    \E o \in 1..Len(heap) :
        /\ Len(heap[o].turns) = 2
        /\ heap[o].turns[1].entities # EmptyDict
        /\ heap[o].turns[2].entities = heap[o].turns[1].entities
        /\ AllEntities(heap[o]) = heap[o].turns[1].entities

\* C15: a run whose decision has requires_escalation true has no fallback
\* agent in its decision, calls no agent but the escalation agent and never
\* enters the fallback or the last-resort attempt.
C15_EscalationNeverDegrades ==
    \A c \in Calls :
        (Reached(run[c], "executing") /\ run[c].routing_decision.requires_escalation) =>
            /\ run[c].routing_decision.fallback_agent = None
            /\ run[c].pc \notin {"fallback", "general"}
            /\ \A i \in 1..Len(run[c].attempts) :
                  run[c].attempts[i].agent = "escalation_agent"

C17_EmptyQueryFailsBeforeCall ==
    (ar # << >> /\ ~NonEmptyMessage(aq.query)) =>
        /\ ar[1].error = "ValueError"
        /\ ar[1].llm_calls = 0
        /\ ar[1].result = << >>
        /\ analyze(aq.query, << >>, aq.behaviour) = << >>

\* analyze was called with an all-whitespace query while the completion
\* service would have answered with a well-formed classification
C17_Witness ==
    /\ ar # << >>
    /\ aq.query = << " ", "\t" >>
    /\ aq.behaviour.kind = "ok"
    /\ DictGet(aq.behaviour.response, "confidence", << >>) = << 90 >>
    /\ ar[1].error = "ValueError"
    /\ ar[1].llm_calls = 0

\* the intent analyze is to return for the intent field of a classification
CoercedIntent(response) ==
    IF "intent" \in DOMAIN response /\ response["intent"] \in Intent
    THEN response["intent"]
    ELSE "unknown"

\* C18: every analyze call on a non-empty query for which the completion
\* service returned a JSON object returns a QueryResult and raises nothing:
\* its intent is the intent of the object when that is one of the taxonomy
\* and unknown otherwise, and its confidence is 0.5 when the object has no
\* confidence field.
C18_ClassificationNeverFailsToParse ==
    (ar # << >> /\ NonEmptyMessage(aq.query) /\ aq.behaviour.kind = "ok") =>
        /\ ar[1].error = None
        /\ ar[1].result # << >>
        /\ ar[1].result[1].intent = CoercedIntent(aq.behaviour.response)
        /\ "confidence" \notin DOMAIN aq.behaviour.response =>
              ar[1].result[1].confidence = 50

\* the number of times the run entered the position pc
Entered(r, pc) == Cardinality({ i \in 1..Len(r.stages) : r.stages[i] = pc })

\* C19 as stated: a finished call on a non-empty message has invoked analyze
\* exactly once and route exactly once, and has one StructuredQuery and one
\* RoutingDecision.
C19_AnalyzeAndRouteExactlyOnce ==
    \A c \in Calls :
        (Done(c) /\ NonEmptyMessage(run[c].user_message)) =>
            /\ Entered(run[c], "understanding") = 1
            /\ Entered(run[c], "routing") = 1
            /\ "intent" \in DOMAIN run[c].structured_query
            /\ "target_agent" \in DOMAIN run[c].routing_decision

\* C19 amended: a call on a non-empty message invokes analyze exactly once
\* and route at most once - once when analyze returned a StructuredQuery,
\* not at all when analyze raised; the decision is the one route returned
\* for that StructuredQuery, and neither changes while the primary, the
\* fallback and the last-resort agent are called and the turn is recorded.
C19_OneQueryOneDecisionReused ==
    /\ [](\A c \in Calls :
            (run[c].pc # "idle" /\ NonEmptyMessage(run[c].user_message)) =>
                /\ Entered(run[c], "understanding") <= 1
                /\ Entered(run[c], "routing") <= 1
                /\ Done(c) =>
                      /\ Entered(run[c], "understanding") = 1
                      /\ Entered(run[c], "routing") = 1
                            <=> "intent" \in DOMAIN run[c].structured_query
                      /\ Entered(run[c], "routing") = 0
                            => run[c].attempts = << >>
                /\ Reached(run[c], "executing") =>
                      run[c].routing_decision =
                          route(run[c].structured_query, ROUTING_TABLE,
                                ESCALATION_TRIGGERS))
    /\ [][\A c \in Calls :
            run[c].pc \in {"executing", "fallback", "general", "recording"} =>
                /\ run'[c].routing_decision = run[c].routing_decision
                /\ run'[c].structured_query = run[c].structured_query]_vars

\* a finished call whose primary and fallback agent raised and whose
\* last-resort agent answered, after one analyze and one route
C19_Witness ==
    \E c \in Calls :
        /\ Done(c)
        /\ Len(run[c].attempts) = 3
        /\ run[c].attempts[3].ok
        /\ Entered(run[c], "understanding") = 1
        /\ Entered(run[c], "routing") = 1

\* ------------------------------------------------------------------------
\* Properties of SessionManager.get_or_create within process
\* ------------------------------------------------------------------------
\* C20: when process obtains the session for a non-empty message, an id that
\* names a stored session gives that session with its turns as they were and
\* the store as it was; an id that is supplied but not stored gives a new
\* session with exactly that id and no turns; no id gives a new session
\* without turns whose id is a new, non-empty one that was no key of the
\* store; the sessions already stored stay stored.  In every state each key
\* of the store maps to a session with that session_id, and a finished call
\* on a non-empty message has returned the key under which its session is
\* stored, the earlier turns of that session being still there.
C20_SessionObtainedOrCreated ==
    /\ [](/\ \A k \in DOMAIN _sessions : heap[_sessions[k]].session_id = k
          /\ \A c \in Calls :
                (Done(c) /\ NonEmptyMessage(run[c].user_message)) =>
                    LET r == run[c]
                        id == r.result[1].session_id
                    IN  /\ id \in DOMAIN _sessions
                        /\ _sessions[id] = r.session
                        /\ heap[r.session].session_id = id
                        /\ SidTruthy(r.session_id) => id = r.session_id
                        /\ IsPrefix(r.before[r.session].turns,
                                    heap[r.session].turns))
    /\ [][\A c \in Calls :
            (run[c].pc = "validating" /\ run'[c].pc = "understanding") =>
                LET sid == run[c].session_id
                    ref == run'[c].session
                IN  /\ \A k \in DOMAIN _sessions :
                          k \in DOMAIN _sessions' /\ _sessions'[k] = _sessions[k]
                    /\ IF SidTruthy(sid) /\ sid \in DOMAIN _sessions
                       THEN /\ ref = _sessions[sid]
                            /\ heap'[ref].turns = heap[ref].turns
                            /\ heap'[ref].session_id = sid
                            /\ _sessions' = _sessions
                            /\ Len(heap') = Len(heap)
                       ELSE /\ ref = Len(heap) + 1
                            /\ Len(heap') = Len(heap) + 1
                            /\ heap'[ref].turns = << >>
                            /\ SidTruthy(heap'[ref].session_id)
                            /\ SidTruthy(sid) => heap'[ref].session_id = sid
                            /\ heap'[ref].session_id \notin DOMAIN _sessions
                            /\ DOMAIN _sessions' =
                                  DOMAIN _sessions \cup {heap'[ref].session_id}
                            /\ _sessions'[heap'[ref].session_id] = ref]_vars

\* a second call that passed the generated id the first call returned, and
\* whose turn was added after the turn of the first call
C20_Witness ==
    \E c \in Calls :
        /\ Done(c)
        /\ NonEmptyMessage(run[c].user_message)
        /\ run[c].session_id = Uuid(1)
        /\ run[c].result[1].session_id = Uuid(1)
        /\ Reached(run[c], "recording")
        /\ Len(heap[run[c].session].turns) = 2
        /\ Len(heap) = 1

\* ------------------------------------------------------------------------
\* Properties of overlapping process calls and the session sweep
\* ------------------------------------------------------------------------
\* the session has a turn with the number the run drew for its turn
HoldsTurnOf(session, r) ==
    \E i \in 1..Len(session.turns) : session.turns[i].turn_id = Uuid(r.recorded)

\* C21: whenever a process call records its turn and returns id s, after any
\* interleaving with cleanup_old_sessions and delete, the store holds under
\* s the session the call worked on, and that session has the turn just
\* recorded.
C21_SweepSparesSessionInFlight ==
    [][\A c \in Calls :
          (run[c].pc = "recording" /\ run'[c].pc = "done") =>
              LET id == run'[c].result[1].session_id
              IN  /\ id \in DOMAIN _sessions'
                  /\ _sessions'[id] = run'[c].session
                  /\ HoldsTurnOf(heap'[_sessions'[id]], run'[c])]_vars

\* the place of the run's turn among the turns of its session
PlaceOfTurn(r, session) ==
    CHOOSE i \in 1..Len(session.turns) : session.turns[i].turn_id = Uuid(r.recorded)

\* the number of turns the context summary of the run tells of
TurnsInSummary(r) ==
    IF r.context_summary[1].part = "start of a new conversation" THEN 0
    ELSE r.context_summary[Len(r.context_summary)].turns

\* the run has recorded its turn and has not yet been taken by its caller
Recorded(c) == Done(c) /\ Reached(run[c], "recording")

\* C22: nothing orders the turns of overlapping calls but the order of
\* their add_turn calls: of two finished calls on one session the turn of
\* the one that recorded first comes first, whichever started first; and
\* the summary and the history a call read hold only turns that come
\* before its own turn.
C22_TurnsFollowRecordingOrder ==
    \A c \in Calls :
        (Recorded(c) /\ HoldsTurnOf(heap[run[c].session], run[c])) =>
            LET r == run[c]
                session == heap[r.session]
            IN  /\ TurnsInSummary(r) < PlaceOfTurn(r, session)
                /\ Len(r.conversation_history) <= 2 * (PlaceOfTurn(r, session) - 1)
                /\ \A d \in Calls \ {c} :
                      (Recorded(d) /\ run[d].session = r.session) =>
                          (PlaceOfTurn(r, session) < PlaceOfTurn(run[d], session)
                              <=> r.recorded < run[d].recorded)

\* two calls on one session of which the one that started later recorded
\* its turn first, having read a summary and a history without any turn
C22_Witness ==
    \E c, d \in Calls :
        /\ Recorded(c) /\ Recorded(d)
        /\ run[c].session = run[d].session
        /\ run[c].session_id = "s1" /\ run[d].session_id = "s1"
        /\ run[c].started < run[d].started
        /\ Len(heap[run[c].session].turns) = 2
        /\ PlaceOfTurn(run[d], heap[run[d].session]) = 1
        /\ PlaceOfTurn(run[c], heap[run[c].session]) = 2
        /\ TurnsInSummary(run[d]) = 0
        /\ run[d].conversation_history = << >>
        /\ TurnsInSummary(run[c]) = 0

\* ------------------------------------------------------------------------
\* Properties of the history and the context summary handed on by process
\* ------------------------------------------------------------------------
\* the smaller of the two numbers
Min(a, b) == IF a < b THEN a ELSE b

\* C23: from the first execute call of a run on, through the fallback and
\* the last-resort attempt and after the turn is recorded, the history of
\* the run consists of the last turns its session had when the call began,
\* five at most, oldest first, each as the user message followed by the
\* assistant response; the turn of the message being processed is not yet
\* among them, and no turn of another session is.
C23_HistoryIsWindowOfFive ==
    \A c \in Calls :
        Reached(run[c], "executing") =>
            LET r == run[c]
                h == r.conversation_history
                turns == r.before[r.session].turns
                n == Len(turns)
                k == Min(n, 5)
            IN  /\ Len(h) = 2 * k
                /\ Len(h) <= 10
                /\ \A j \in 1..k :
                      /\ h[2 * j - 1] = [role |-> "user",
                                         content |-> turns[n - k + j].user_message]
                      /\ h[2 * j] = [role |-> "assistant",
                                     content |-> turns[n - k + j].agent_response]
                /\ \A o \in 1..Len(r.before) :
                      (o # r.session /\ r.before[o].turns # << >>) =>
                          \A i \in 1..Len(h) :
                              h[i].content # r.before[o].turns[1].user_message
                                  /\ h[i].content # r.before[o].turns[1].agent_response

\* a finished call on the session of six turns whose fallback agent
\* answered: the history began with the second turn and ended with the sixth
C23_Witness ==
    \E c \in Calls :
        /\ Done(c)
        /\ Len(run[c].attempts) >= 2
        /\ Len(run[c].before[run[c].session].turns) = 6
        /\ Len(run[c].conversation_history) = 10
        /\ run[c].conversation_history[1].content = << "q", "2" >>
        /\ run[c].conversation_history[10].content = << "<completion>", "q", "6" >>
        /\ Len(heap[run[c].session].turns) = 7

\* the summary of a session that holds the one turn t
SummaryOfOneTurn(t) ==
    << [part |-> "Recent topics", topics |-> {t.intent}] >>
    \o (IF DOMAIN t.entities # {}
        THEN << [part |-> "Known information", known |-> t.entities] >>
        ELSE << >>)
    \o << [part |-> "Conversation length", turns |-> 1] >>

Executed(class) == ar # << >> /\ action_agents[ar[1].agent] = class

\* the decision the agent was handed, and what the collaborators did
Handed == rd[1]
Retrieval == aq.env.retrieval
Completion == aq.env.llm

\* the search phrase of the decision: search_query, else query, else empty
SearchPhrase(decision) ==
    IF "search_query" \in DOMAIN decision.parameters
    THEN decision.parameters["search_query"]
    ELSE IF "query" \in DOMAIN decision.parameters THEN decision.parameters["query"]
    ELSE << >>

\* the confidence the retrieval agent reports for the decision when the
\* knowledge base returns an answer with n sources
ConfidenceWithSources(n) ==
    RetrieveActionAgent_execute(Handed, << >>,
        [retrieval |-> [kind |-> "ok", answer |-> << "<rag answer>" >>, sources |-> n],
         llm |-> Completion])[1].confidence

\* C25: an execute call of the retrieval agent with a non-empty search
\* phrase whose knowledge base answers without sources returns a result
\* with no sources, requires_followup set, and a confidence below the one
\* reported for an answer with a source; the completion service is not
\* called.
C25_NoPassagesLowersConfidence ==
    (Executed("RetrieveActionAgent")
        /\ SearchPhrase(Handed) # << >>
        /\ Retrieval.kind = "ok" /\ Retrieval.sources = 0) =>
            /\ ar[1].result # << >>
            /\ IsActionResult(ar[1].result[1])
            /\ ar[1].result[1].sources = << >>
            /\ ar[1].result[1].requires_followup
            /\ ar[1].result[1].confidence < ConfidenceWithSources(1)
            /\ ar[1].retrieval_calls = 1
            /\ ar[1].llm_calls = 0

\* the retrieval agent answered a knowledge query from a knowledge base
\* that found nothing, while the completion service of the agent is down
C25_Witness ==
    /\ Executed("RetrieveActionAgent")
    /\ ar[1].agent = "retrieve_agent"
    /\ Handed.target_agent = "retrieve_agent"
    /\ rq[1].intent = "knowledge_query"
    /\ SearchPhrase(Handed) = <<"h", "e", "l", "l", "o">>
    /\ Retrieval.kind = "ok" /\ Retrieval.sources = 0
    /\ Completion.kind = "raises"
    /\ ar[1].result[1].confidence = 50
    /\ ar[1].result[1].requires_followup

\* the retrieval agent could not get an answer from the knowledge base:
\* the RetrieveAgent cannot be imported, cannot be constructed, or its
\* query raises
RetrievalDown == Retrieval.kind \in {"unavailable", "construct_raises", "raises"}

\* C26 as stated: an execute call of the retrieval agent whose knowledge
\* base is unavailable or raises fails only if the completion call fails
\* too; otherwise it returns a result with no sources, requires_followup
\* set, and a confidence below both the one reported for an answer with a
\* source and the one reported for an answer without.
C26_RetrievalDownDegrades ==
    (Executed("RetrieveActionAgent") /\ RetrievalDown) =>
        /\ ar[1].result = << >> => Completion.kind = "raises"
        /\ ar[1].result # << >> =>
              /\ ar[1].result[1].sources = << >>
              /\ ar[1].result[1].requires_followup
              /\ ar[1].result[1].confidence < ConfidenceWithSources(1)
              /\ ar[1].result[1].confidence < ConfidenceWithSources(0)

\* the ticket identifier of the decision, None when it has none
TicketOf(decision) ==
    IF "ticket_id" \in DOMAIN decision.parameters
    THEN decision.parameters["ticket_id"] ELSE PyNone

\* the identifier in upper case, with the prefix TKT- put in front of it
\* when it does not begin with it
Normalised(ticket_id) ==
    IF StartsWith(upper(ticket_id), TktPrefix) THEN upper(ticket_id)
    ELSE TktPrefix \o upper(ticket_id)

\* C27: every execute call of the ticket agent returns a result.  Without
\* a ticket identifier (none, null or empty) it asks for one, sets
\* requires_followup and looks nothing up.  With one it looks up the
\* normalised identifier: a known ticket is reported under the normalised
\* identifier, an unknown one gets the not-found text with
\* requires_followup set.
C27_TicketLookupNeverFails ==
    Executed("TicketStatusAgent") =>
        LET ticket_id == TicketOf(Handed)
            res == ar[1].result
        IN  /\ res # << >>
            /\ IsActionResult(res[1])
            /\ ar[1].llm_calls = 0 /\ ar[1].retrieval_calls = 0
            /\ (ticket_id = PyNone \/ ticket_id = << >>) =>
                  /\ res[1].content = << "<ask for ticket number>" >>
                  /\ res[1].requires_followup
                  /\ ar[1].ticket_lookups = 0
            /\ (ticket_id # PyNone /\ ticket_id # << >>) =>
                  /\ ar[1].ticket_lookups = 1
                  /\ Normalised(ticket_id) \in mock_statuses =>
                        /\ res[1].content = << "<status of> " >> \o Normalised(ticket_id)
                        /\ res[1].metadata.ticket_id = Normalised(ticket_id)
                  /\ Normalised(ticket_id) \notin mock_statuses =>
                        /\ res[1].content = << "<not found> " >> \o ticket_id
                        /\ res[1].requires_followup

\* the ticket agent was handed the identifier 12345 of a ticket_status
\* query and reported ticket TKT-12345
C27_Witness ==
    /\ Executed("TicketStatusAgent")
    /\ Handed.target_agent = "ticket_agent"
    /\ TicketOf(Handed) = <<"1", "2", "3", "4", "5">>
    /\ ar[1].result[1].metadata.ticket_id = <<"T", "K", "T", "-", "1", "2", "3", "4", "5">>
    /\ ~ar[1].result[1].requires_followup

\* the clarification question of the decision, None when it has none
QuestionOf(decision) ==
    IF "question" \in DOMAIN decision.parameters
    THEN decision.parameters["question"] ELSE PyNone

\* C28: an execute call of the clarification agent on a decision with a
\* non-empty question returns that question as content with
\* requires_followup set, whatever the completion service does, and does
\* not call it.  On a decision without a question (none, null or empty) it
\* calls the completion service once, returns the text it got with
\* requires_followup set, and raises exactly when the completion call raises.
C28_SuppliedQuestionReturnedVerbatim ==
    Executed("ClarificationAgent") =>
        LET question == QuestionOf(Handed)
            res == ar[1].result
        IN  /\ (question # PyNone /\ question # << >>) =>
                  /\ res # << >>
                  /\ res[1].content = question
                  /\ res[1].requires_followup
                  /\ ar[1].llm_calls = 0
            /\ (question = PyNone \/ question = << >>) =>
                  /\ ar[1].llm_calls = 1
                  /\ res = << >> <=> Completion.kind = "raises"
                  /\ res # << >> =>
                        /\ res[1].content = Completion.text
                        /\ res[1].requires_followup

\* the clarification agent returned the question of the classifier while
\* the completion service was down
C28_Witness ==
    /\ Executed("ClarificationAgent")
    /\ Handed.target_agent = "clarification_agent"
    /\ rq[1].requires_clarification
    /\ QuestionOf(Handed) = << "<which ticket?>" >>
    /\ Completion.kind = "raises"
    /\ ar[1].result # << >>
    /\ ar[1].result[1].content = << "<which ticket?>" >>

\* the template the escalation agent chose, as its result records it
TemplateOf(result) == result.metadata.priority

\* C29 as stated: for every decision of the trigger scan handed to the
\* escalation agent, the safety template is chosen exactly when the text
\* has a safety keyword, the legal template exactly when it has a keyword of
\* the legal group (lawyer, attorney, legal, sue, lawsuit) and no safety
\* keyword, and the default template otherwise.
C29_TemplateFollowsTriggerClass ==
    (Executed("EscalationAgent") /\ Handed.reasoning = "escalation_triggers") =>
        LET text == rq[1].original_query
            template == TemplateOf(ar[1].result[1])
        IN  /\ template = "safety" <=> HasSafetyKeyword(text)
            /\ template = "legal" <=> (HasLegalKeyword(text) /\ ~HasSafetyKeyword(text))
            /\ template = "default" <=> (~HasLegalKeyword(text) /\ ~HasSafetyKeyword(text))

\* C30: every execute call of the escalation agent, whatever decision it is
\* handed, returns a result with confidence 100 (1.0); it draws one uuid,
\* which no earlier call has drawn, records ESC- and the identifier made of
\* it as the reference number of the result, and calls neither the
\* completion service nor the knowledge base nor the ticket table.
C30_EscalationAlwaysAcknowledges ==
    [][(ar = << >> /\ ar' # << >> /\ action_agents[ar'[1].agent] = "EscalationAgent") =>
          /\ ar'[1].result # << >>
          /\ IsActionResult(ar'[1].result[1])
          /\ ar'[1].result[1].confidence = 100
          /\ ar'[1].uuids = 1
          /\ uuid_count' = uuid_count + 1
          /\ ar'[1].result[1].metadata.reference_number = EscPrefix \o Hex8(uuid_count')
          /\ ar'[1].llm_calls = 0
          /\ ar'[1].retrieval_calls = 0
          /\ ar'[1].ticket_lookups = 0]_vars

\* the escalation agent ran as the fallback of a password route: the
\* decision has neither triggered keywords nor an escalation reason, and
\* the result has confidence 100 and the reference number of the second uuid
C30_Witness ==
    /\ Executed("EscalationAgent")
    /\ rq[1].intent = "password_reset"
    /\ Handed.target_agent = "retrieve_agent"
    /\ Handed.fallback_agent = "escalation_agent"
    /\ Handed.escalation_reason = PyNone
    /\ "triggered_keywords" \notin DOMAIN Handed.parameters
    /\ ar[1].result[1].confidence = 100
    /\ TemplateOf(ar[1].result[1]) = "default"
    /\ uuid_count = 2
    /\ ar[1].result[1].metadata.reference_number = EscPrefix \o Hex8(2)

\* C31 as stated: the content of every result of the escalation agent
\* contains the reference number recorded in its metadata, which is ESC-
\* followed by eight characters, whichever template was chosen.
C31_ContentHasReferenceNumber ==
    Executed("EscalationAgent") =>
        LET res == ar[1].result[1]
            ref_number == res.metadata.reference_number
        IN  /\ Len(ref_number) = 12
            /\ StartsWith(ref_number, EscPrefix)
            /\ Contains(res.content, ref_number)

\* the entities that are relevant to the capability of an intent
RelevantEntities(intent) ==
    IF intent = "ticket_status" THEN {"ticket_id"}
    ELSE IF intent = "knowledge_query" THEN {"topic"}
    ELSE IF intent = "password_reset" THEN {"user_name"}
    ELSE IF intent = "course_info" THEN {"course_number"}
    ELSE {}

EntityNames == {"ticket_id", "course_number", "user_name", "date", "topic", "urgency"}

\* C32 as stated: the parameters of a decision made from the routing table
\* have the relevant entities of the intent (and the search phrase for
\* knowledge and course queries), and no entity that was extracted from the
\* query and is not relevant to the intent, neither as a parameter nor
\* inside one.
C32_ParametersOnlyRelevantEntities ==
    (rd # << >> /\ rd[1].reasoning = "routing_table") =>
        LET params == rd[1].parameters
            intent == rq[1].intent
        IN  /\ (RelevantEntities(intent) \cap DOMAIN rq[1].entities) \subseteq DOMAIN params
            /\ intent \in {"knowledge_query", "course_info"} =>
                  /\ "search_query" \in DOMAIN params
                  /\ params["search_query"] = rq[1].original_query
            /\ (DOMAIN params \cap EntityNames) \subseteq RelevantEntities(intent)
            /\ "entities" \in DOMAIN params =>
                  DOMAIN params["entities"] \subseteq RelevantEntities(intent)

\* C33 as stated: every QueryResult analyze returns has a confidence of the
\* range 0..100 (in hundredths), whatever the confidence field of the
\* classification was.
C33_ConfidenceWithinUnitRange ==
    (ar # << >> /\ ar[1].result # << >>) =>
        /\ ar[1].result[1].confidence >= 0
        /\ ar[1].result[1].confidence <= 100

\* ------------------------------------------------------------------------
\* Properties of the session store
\* ------------------------------------------------------------------------
\* C34: no step of a process call, of delete or of cleanup_old_sessions
\* changes or removes a turn that a session holds: the turns of every
\* Session object before the step are a prefix of its turns after it, and
\* so are the turns stored under every session id that the step leaves in
\* the store.
C34_TurnsOnlyAppended ==
    [][/\ Len(heap) <= Len(heap')
       /\ \A ref \in 1..Len(heap) : IsPrefix(heap[ref].turns, heap'[ref].turns)
       /\ \A sid \in DOMAIN _sessions \cap DOMAIN _sessions' :
             IsPrefix(heap[_sessions[sid]].turns, heap'[_sessions'[sid]].turns)]_vars

\* the session stored under s1 holds the turns of two calls, the second
\* appended behind the first
C34_Witness ==
    /\ "s1" \in DOMAIN _sessions
    /\ Len(heap[_sessions["s1"]].turns) = 2
    /\ heap[_sessions["s1"]].turns[1].turn_id # heap[_sessions["s1"]].turns[2].turn_id
    /\ \E c \in Calls : Recorded(c) /\ run[c].recorded = uuid_count

\* the step is a call of cleanup_old_sessions: no process call moves, and
\* the store or the value returned changes
IsSweep == ar' # << >> /\ run' = run /\ (ar' # ar \/ _sessions' # _sessions)

\* the ids of the sessions whose last activity is more than the given
\* number of minutes before the clock
OlderThan(max_age_minutes) ==
    { sid \in DOMAIN _sessions :
        heap[_sessions[sid]].last_activity + max_age_minutes < now }

\* C35: a call of cleanup_old_sessions removes from the store the sessions
\* whose last activity is older than max_age_minutes and no other, and
\* returns their number; the sessions it leaves are stored under the same
\* ids, no Session object changes, and the session of a process call that
\* obtained its session, or recorded its turn, no longer ago than
\* max_age_minutes stays in the store.
C35_SweepRemovesExactlyOldSessions ==
    [][IsSweep =>
          LET max_age_minutes == ar'[1].max_age_minutes
          IN  /\ DOMAIN _sessions' = DOMAIN _sessions \ OlderThan(max_age_minutes)
              /\ ar'[1].returned = Cardinality(OlderThan(max_age_minutes))
              /\ \A sid \in DOMAIN _sessions' : _sessions'[sid] = _sessions[sid]
              /\ heap' = heap
              /\ \A c \in Calls :
                    (run[c].session # 0
                        /\ run[c].started + max_age_minutes >= now
                        /\ \E sid \in DOMAIN _sessions : _sessions[sid] = run[c].session) =>
                            \E sid \in DOMAIN _sessions' : _sessions'[sid] = run[c].session]_vars

\* a sweep removed one of two sessions: the store holds one session, which
\* has a recorded turn, and the heap has the session that was removed
C35_Witness ==
    /\ ar # << >>
    /\ ar[1].returned = 1
    /\ Cardinality(DOMAIN _sessions) = 1
    /\ Len(heap) = 2
    /\ \E sid \in DOMAIN _sessions : Len(heap[_sessions[sid]].turns) = 1

C37_AgentsAnswerOriginalMessage ==
    (ar # << >>
        /\ \E i \in 1..Len(Chain(Handed)) : Chain(Handed)[i] = ar[1].agent
        /\ ar[1].query # PyNone) =>
            ar[1].query = rq[1].original_query

\* ------------------------------------------------------------------------
\* Properties of the priority and the escalation flag of a decision
\* ------------------------------------------------------------------------
\* C38 as stated: priority urgent only with the escalation flag and a
\* safety keyword in the text, the escalation flag exactly for the
\* decisions of the trigger scan, and every query of the escalation intent
\* without a trigger keyword routed to the escalation agent with the flag
\* unset and priority high.
C38_EscalationIntentGoesToTable ==
    rd # << >> =>
        LET q == rq[1]
            d == rd[1]
        IN  /\ d.priority = "urgent" =>
                  (d.requires_escalation /\ HasSafetyKeyword(q.original_query))
            /\ d.requires_escalation <=> HasTriggerKeyword(q.original_query)
            /\ (q.intent = "escalation" /\ ~HasTriggerKeyword(q.original_query)) =>
                  /\ d.target_agent = "escalation_agent"
                  /\ ~d.requires_escalation
                  /\ d.priority = "high"

\* C38: priority urgent only with the escalation flag and a safety keyword
\* in the text; the escalation flag exactly for the decisions of the trigger
\* scan, that is exactly when the text has a trigger keyword; and a query of
\* the escalation intent without a trigger keyword that is not flagged for
\* clarification and has a confidence of at least 0.6 is routed by the table
\* to the escalation agent with the flag unset and priority high, whatever
\* its urgency hint.
C38_UrgentAndFlagOnlyFromScan ==
    rd # << >> =>
        LET q == rq[1]
            d == rd[1]
        IN  /\ d.priority = "urgent" =>
                  (d.requires_escalation /\ HasSafetyKeyword(q.original_query))
            /\ d.requires_escalation <=> HasTriggerKeyword(q.original_query)
            /\ d.requires_escalation <=> d.reasoning = "escalation_triggers"
            /\ (q.intent = "escalation" /\ ~HasTriggerKeyword(q.original_query)
                    /\ ~q.requires_clarification
                    /\ q.confidence >= CONFIDENCE_THRESHOLD) =>
                  /\ d.target_agent = "escalation_agent"
                  /\ d.reasoning = "routing_table"
                  /\ ~d.requires_escalation
                  /\ d.priority = "high"

\* a query of the escalation intent with the urgency hint critical and
\* confidence 0.9, without a trigger keyword, got the escalation agent from
\* the table with the flag unset and priority high
C38_Witness ==
    /\ rd # << >>
    /\ rq[1].intent = "escalation"
    /\ rq[1].original_query = <<"h", "e", "l", "l", "o">>
    /\ rq[1].metadata.urgency = "critical"
    /\ rq[1].confidence = 90
    /\ ~rq[1].requires_clarification
    /\ rd[1].target_agent = "escalation_agent"
    /\ rd[1].reasoning = "routing_table"
    /\ ~rd[1].requires_escalation
    /\ rd[1].priority = "high"

\* ------------------------------------------------------------------------
\* Properties of several routers
\* ------------------------------------------------------------------------
\* the routing table after the update_routing calls of the list, whichever
\* instance they were made on
RECURSIVE TableAfter(_)
TableAfter(calls) ==
    IF calls = << >> THEN ROUTING_TABLE
    ELSE LET before == TableAfter(SubSeq(calls, 1, Len(calls) - 1))
             last == calls[Len(calls)]
         IN  IF last.call = "update_routing"
             THEN [before EXCEPT ![last.intent] = last.entry]
             ELSE before

\* the trigger list after the add_escalation_trigger calls of the list
RECURSIVE TriggersAfter(_)
TriggersAfter(calls) ==
    IF calls = << >> THEN ESCALATION_TRIGGERS
    ELSE LET before == TriggersAfter(SubSeq(calls, 1, Len(calls) - 1))
             last == calls[Len(calls)]
         IN  IF last.call = "add_escalation_trigger"
                  /\ \A i \in 1..Len(before) : before[i] # lower(last.trigger)
             THEN Append(before, lower(last.trigger))
             ELSE before

\* C39: every route call, on whichever instance, decides with the table
\* and the trigger list as all update_routing and add_escalation_trigger
\* calls made so far on any instance have left them.
C39_RoutersShareTableAndTriggers ==
    [][rd' # rd =>
          rd'[1].decision = route(rq'[1], TableAfter(ar), TriggersAfter(ar))]_vars

\* the table was changed on the first instance, a second instance was
\* created afterwards, and the second instance routed a general_chat query
\* to the agent the first one had set
C39_Witness ==
    /\ Len(ar) = 2
    /\ ar[1].call = "update_routing"
    /\ ar[1].router = 1
    /\ ar[1].intent = "general_chat"
    /\ ar[1].entry = << "ticket_agent", None >>
    /\ ar[2].call = "RouterAgent"
    /\ rd # << >>
    /\ rd[1].router = 2
    /\ rq[1].intent = "general_chat"
    /\ rq[1].original_query = <<"h", "e", "l", "l", "o">>
    /\ rd[1].decision.target_agent = "ticket_agent"

\* ------------------------------------------------------------------------
\* Properties of overlapping calls
\* ------------------------------------------------------------------------
\* the number of add_turn calls made so far: the calls supply their session
\* id and no escalation is routed, so every uuid drawn is the id of a turn
TurnsRecorded == uuid_count

====
